---- MODULE Spec2Model ----
(***************************************************************************)
(* ChatBETO listener: the signature-verified webhook ingestion pipeline.   *)
(*                                                                         *)
(*  - validateWebhookSignature (middleware/auth)                           *)
(*  - validateApiKey           (middleware/auth), POST /sync/manual        *)
(*  - healthCheck              (controllers/webhook), GET /health          *)
(*  - validateWebhookPayload   (utils/validation, Joi schemas)             *)
(*  - WebhookController        (controllers/webhook)                       *)
(*  - DatabaseService          (services/database, MySQL upserts)          *)
(*                                                                         *)
(* Requests are numbered in arrival order.  Every `await` of a handler is  *)
(* a point where another request may run, so each store call is one        *)
(* action; the synchronous code between two awaits belongs to the action   *)
(* of the store call that precedes it.                                     *)
(***************************************************************************)
EXTENDS Integers, Sequences, FiniteSets, TLC

\* ---------------------------------------------------------------- bounds
\* Number of requests of one behaviour.
NumRequests == 2
\* Number of bytes of an HMAC digest in the model (32 for SHA-256).
DigestLen == 2

\* ------------------------------------------------------ program constants
\* Replay tolerance of validateWebhookSignature, in seconds.
ReplayWindow == 300

VARIABLES
    now,            \* Math.floor(Date.now() / 1000)
    req,            \* the requests, in arrival order
    projects,       \* table projects, rows in insertion order
    conversations,  \* table conversations
    messages,       \* table messages
    dbUp            \* the MySQL server is reachable from the pool

vars == <<now, req, projects, conversations, messages, dbUp>>

\* ------------------------------------------------------------- JS values
\* SQL NULL / JS null in a string-typed position.
Null == "<null>"
\* JS undefined in a string-typed position (an absent property).
Undefined == "<undefined>"

\* o.f for a string-typed property: undefined when the property is absent.
Field(o, f) == IF f \in DOMAIN o THEN o[f] ELSE Undefined

\* `v || d` for a string-typed v.
OrElse(v, d) == IF v \in {Undefined, Null, ""} THEN d ELSE v

\* Tagged JS values for the positions that accept string, object or array.
Str(s) == [t |-> "string", v |-> s]
Obj(j) == [t |-> "object", v |-> j]
\* JSON null in such a position.
NullValue == [t |-> "null"]

\* Truthiness of a tagged value (objects and arrays are always truthy).
Truthy(x) == IF x.t = "string" THEN x.v # "" ELSE x.t = "object"

\* JSON.stringify of a tagged value: a string is quoted, an object or array
\* is its JSON text.
JSONstringifyValue(x) == IF x.t = "string" THEN "\"" \o x.v \o "\"" ELSE x.v

\* new Date(seconds * 1000): the instant, as whole seconds since the epoch and
\* the milliseconds within the second.
ToDate(seconds) == [epochSeconds |-> seconds, millis |-> 0]

\* A raw request body: the JSON value it denotes and how it is laid out
\* ("compact" is the layout JSON.stringify produces).
RawBody(value, layout) == [value |-> value, layout |-> layout]

\* express.json(): req.body = JSON.parse(raw body).
JSONparse(raw) == raw.value

\* JSON.stringify(req.body): the compact serialization of the parsed value.
JSONstringify(value) == RawBody(value, "compact")

\* ----------------------------------------------------- HMAC, hex, buffers
WebhookSecret == "webhook-secret"

\* `${timestamp}.${payload}`
SignedMessage(timestamp, payload) == <<timestamp, ".", payload>>

\* crypto.createHmac('sha256', key).update(msg).digest('hex'): an ideal MAC,
\* DigestLen bytes, each written as one hex pair.
HmacHex(key, msg) ==
    [i \in 1..DigestLen |-> [key |-> key, msg |-> msg, pos |-> i]]

\* A signature header value: an optional "sha256=" prefix, hex pairs, and
\* possibly trailing characters that are not hex digits.
SigValue(prefix, hex, junk) == [prefix |-> prefix, hex |-> hex, junk |-> junk]

\* The header value is the empty string (falsy in `!signature`).
EmptySig(sig) == ~sig.prefix /\ sig.hex = <<>> /\ ~sig.junk

\* signature.replace('sha256=', '')
StripPrefix(sig) == [sig EXCEPT !.prefix = FALSE]

\* Buffer.from(s, 'hex'): decoding stops at the first character that is not
\* a hex digit, so a value still carrying its prefix decodes to nothing.
BufferFromHex(sig) == IF sig.prefix THEN <<>> ELSE sig.hex

\* parseInt(s) on a header string given as a sequence of characters:
\* the leading decimal digits, NaN when there is none.
Digits == {"0", "1", "2", "3", "4", "5", "6", "7", "8", "9"}
DigitValue(c) ==
    CASE c = "0" -> 0 [] c = "1" -> 1 [] c = "2" -> 2 [] c = "3" -> 3
      [] c = "4" -> 4 [] c = "5" -> 5 [] c = "6" -> 6 [] c = "7" -> 7
      [] c = "8" -> 8 [] c = "9" -> 9

RECURSIVE ParseDigits(_, _)
ParseDigits(s, acc) ==
    IF s = <<>> \/ Head(s) \notin Digits THEN acc
    ELSE ParseDigits(Tail(s), acc * 10 + DigitValue(Head(s)))

NaN == [nan |-> TRUE]
Num(n) == [nan |-> FALSE, n |-> n]

ParseInt(s) ==
    IF s = <<>> \/ Head(s) \notin Digits THEN NaN ELSE Num(ParseDigits(s, 0))

Abs(n) == IF n < 0 THEN -n ELSE n

\* Mutant of TooOld: the window excludes its own limit.
TooOldInclusive(nowv, webhookTime) ==
    IF webhookTime.nan THEN FALSE ELSE Abs(nowv - webhookTime.n) >= ReplayWindow

\* Math.abs(now - webhookTime) > 300; every comparison with NaN is false.
TooOld(nowv, webhookTime) ==
    IF webhookTime.nan THEN FALSE ELSE Abs(nowv - webhookTime.n) > ReplayWindow

\* ----------------------------------------------- validateWebhookSignature
SigHeader == "x-webhook-signature"
TsHeader == "x-webhook-timestamp"
EventHeader == "x-event-type"

Reject(status, error) == [status |-> status, error |-> error, next |-> FALSE]
CallNext == [status |-> 0, error |-> "", next |-> TRUE]

\* crypto.timingSafeEqual(a, b) throws a RangeError when the byte lengths
\* differ; the middleware's catch turns that into the 500 answer.
CompareSignature(expected, provided) ==
    IF Len(expected) # Len(provided)
    THEN Reject(500, "Signature validation failed")
    ELSE IF expected # provided
         THEN Reject(401, "Invalid signature")
         ELSE CallNext

\* Mutant of ValidateWebhookSignature: the presence test reads
\* `!signature && !timestamp`, so a request lacking one header goes on: without
\* signature, signature.replace throws; without timestamp, parseInt gives NaN
\* and the digest is computed over 'undefined.<payload>'.
ValidateWebhookSignatureBothMissing(headers, body, nowv) ==
    LET noSig == SigHeader \notin DOMAIN headers \/ EmptySig(headers[SigHeader])
        noTs == TsHeader \notin DOMAIN headers \/ headers[TsHeader] = <<>>
    IN  IF noSig /\ noTs THEN Reject(401, "Missing signature or timestamp")
        ELSE IF noSig THEN Reject(500, "Signature validation failed")
        ELSE LET timestamp == IF noTs THEN <<"undefined">> ELSE headers[TsHeader]
             IN  IF TooOld(nowv, ParseInt(timestamp))
                 THEN Reject(401, "Request too old")
                 ELSE CompareSignature(
                          HmacHex(WebhookSecret,
                                  SignedMessage(timestamp, JSONstringify(body))),
                          BufferFromHex(StripPrefix(headers[SigHeader])))

\* The outcome of the middleware for the given headers and parsed body when
\* the clock reads nowv.
ValidateWebhookSignature(headers, body, nowv) ==
    IF \/ SigHeader \notin DOMAIN headers
       \/ TsHeader \notin DOMAIN headers
       \/ EmptySig(headers[SigHeader])
       \/ headers[TsHeader] = <<>>
    THEN Reject(401, "Missing signature or timestamp")
    ELSE LET signature == headers[SigHeader]
             timestamp == headers[TsHeader]
             webhookTime == ParseInt(timestamp)
         IN  IF TooOld(nowv, webhookTime)
             THEN Reject(401, "Request too old")
             ELSE LET payload == JSONstringify(body)
                      expectedSignature ==
                          HmacHex(WebhookSecret, SignedMessage(timestamp, payload))
                      providedSignature == StripPrefix(signature)
                  IN  CompareSignature(
                          BufferFromHex(SigValue(FALSE, expectedSignature, FALSE)),
                          BufferFromHex(providedSignature))

\* ---------------------------------------------------------- validateApiKey
\* Credential strings are sequences of characters.
ApiKeyHeader == "x-api-key"
AuthorizationHeader == "authorization"

BearerPrefix == <<"B", "e", "a", "r", "e", "r", " ">>
ApiKeyPrefix == <<"A", "p", "i", "K", "e", "y", " ">>

\* config.security.apiKey
ConfiguredApiKey == <<"k", "1">>

\* The positions at which pat occurs in s.
Occurrences(s, pat) ==
    {i \in 1..(Len(s) - Len(pat) + 1) : SubSeq(s, i, i + Len(pat) - 1) = pat}

\* s.replace(pat, ''): the first occurrence of the string pat is removed,
\* wherever it stands.
ReplaceFirst(s, pat) ==
    IF Occurrences(s, pat) = {} THEN s
    ELSE LET i == CHOOSE k \in Occurrences(s, pat) :
                      \A m \in Occurrences(s, pat) : k <= m
         IN  SubSeq(s, 1, i - 1) \o SubSeq(s, i + Len(pat), Len(s))

\* req.headers[name] as a string; undefined and '' are both falsy.
HeaderOrEmpty(headers, name) ==
    IF name \in DOMAIN headers THEN headers[name] ELSE <<>>

\* The outcome of validateApiKey for the given headers.
ValidateApiKey(headers) ==
    LET apiKey == IF HeaderOrEmpty(headers, ApiKeyHeader) # <<>>
                  THEN headers[ApiKeyHeader]
                  ELSE HeaderOrEmpty(headers, AuthorizationHeader)
        cleanApiKey == ReplaceFirst(ReplaceFirst(apiKey, BearerPrefix), ApiKeyPrefix)
    IN  IF apiKey = <<>> THEN Reject(401, "Missing API key")
        ELSE IF cleanApiKey # ConfiguredApiKey THEN Reject(401, "Invalid API key")
        ELSE CallNext

\* ---------------------------------------------------------------- requests
\* The middleware did not run (the handler was called as a method).
NotRun == [status |-> 0, error |-> "", next |-> FALSE]

NoResponse == [status |-> 0]
Response(status, body) == [status |-> status, body |-> body]

\* Mutant of NewRequest: the middleware answers a rejected request without
\* returning, so the chain goes on to the handler.
NewRequestChainGoesOn(entry, headers, raw, auth, at) ==
    [kind    |-> "webhook",
     entry   |-> entry,
     after   |-> {k \in DOMAIN req : req[k].pc = "responded"},
     headers |-> headers,
     rawBody |-> raw,
     body    |-> JSONparse(raw),
     at      |-> at,
     auth    |-> auth,
     pc      |-> "handler",
     res     |-> NoResponse,
     ops     |-> <<>>,
     threw   |-> FALSE]

\* A request as it enters the handler chain.  entry is "route" for a request
\* dispatched by the Express router and "method" for a call of
\* webhookController.handleChatGPTWebhook(req, res) on the exported instance.
\* after: the requests already answered when this one arrives; at: the clock
\* reading on arrival; ops: the store calls issued for it so far; threw: a
\* store call of the request threw.  kind tells the route: "webhook" for
\* /webhook/chatgpt, "sync" for /sync/manual, "health" for /health.
NewRequest(entry, headers, raw, auth, at) ==
    [kind    |-> "webhook",
     entry   |-> entry,
     after   |-> {k \in DOMAIN req : req[k].pc = "responded"},
     headers |-> headers,
     rawBody |-> raw,
     body    |-> JSONparse(raw),
     at      |-> at,
     auth    |-> auth,
     pc      |-> IF entry = "route" /\ ~auth.next THEN "responded" ELSE "handler",
     res     |-> IF entry = "route" /\ ~auth.next
                 THEN Response(auth.status, [error |-> auth.error])
                 ELSE NoResponse,
     ops     |-> <<>>,
     threw   |-> FALSE]

\* POST /webhook/chatgpt: the request passes validateWebhookSignature, which
\* either answers it or calls next().
RouteWebhook(inputs) ==
    /\ Len(req) < NumRequests
    /\ \E in \in inputs :
          req' = Append(req,
                   NewRequest("route", in.headers, in.raw,
                       ValidateWebhookSignature(in.headers, JSONparse(in.raw), now),
                       now))
    /\ UNCHANGED <<dbUp, now, projects, conversations, messages>>

\* ------------------------------------------------------ validateTimestamp
\* The width of the window of validateTimestamp on either side of the clock,
\* in seconds. The code's edges are the midnights of the same calendar day one
\* year before and after the clock, 364 to 367 days away; 365 days are taken.
YearSeconds == 365 * 24 * 3600

\* validateTimestamp(timestamp) when the clock reads nowv: null for 0 and for
\* an instant more than a year before or after the clock, else the Date.
ValidateTimestamp(timestamp, nowv) ==
    IF timestamp = 0 THEN NullValue
    ELSE IF timestamp < nowv - YearSeconds \/ timestamp > nowv + YearSeconds
    THEN NullValue
    ELSE ToDate(timestamp)

\* ------------------------------------------------ validateWebhookPayload
\* One entry of validation.errors.
Detail(field, message) == [field |-> field, message |-> message]

Roles == {"user", "assistant", "system"}

\* conversationSchema: the first rule a conversation object breaks, or <<>>.
ValidateConversationObj(c) ==
    IF "id" \notin DOMAIN c
    THEN <<Detail("conversation.id", "\"conversation.id\" is required")>>
    ELSE IF c.id = ""
    THEN <<Detail("conversation.id", "\"conversation.id\" is not allowed to be empty")>>
    ELSE IF Field(c, "title") = Null
    THEN <<Detail("conversation.title", "\"conversation.title\" must be a string")>>
    ELSE IF "create_time" \notin DOMAIN c
    THEN <<Detail("conversation.create_time", "\"conversation.create_time\" is required")>>
    ELSE IF "update_time" \notin DOMAIN c
    THEN <<Detail("conversation.update_time", "\"conversation.update_time\" is required")>>
    ELSE <<>>

\* messageSchema.
ValidateMessageObj(m) ==
    IF "id" \notin DOMAIN m
    THEN <<Detail("message.id", "\"message.id\" is required")>>
    ELSE IF "conversation_id" \notin DOMAIN m
    THEN <<Detail("message.conversation_id", "\"message.conversation_id\" is required")>>
    ELSE IF "role" \notin DOMAIN m
    THEN <<Detail("message.role", "\"message.role\" is required")>>
    ELSE IF m.role \notin Roles
    THEN <<Detail("message.role",
                  "\"message.role\" must be one of [user, assistant, system]")>>
    ELSE IF "content" \in DOMAIN m /\ m.content = Str("")
    THEN <<Detail("message.content", "\"message.content\" is not allowed to be empty")>>
    ELSE IF "create_time" \notin DOMAIN m
    THEN <<Detail("message.create_time", "\"message.create_time\" is required")>>
    ELSE <<>>

\* projectSchema.
ValidateProjectObj(p) ==
    IF "name" \notin DOMAIN p
    THEN <<Detail("project.name", "\"project.name\" is required")>>
    ELSE <<>>

\* Mutant of EnvelopeErrors: `conversation` is required whether or not a
\* message is present.
EnvelopeErrorsConversationRequired(payload) ==
    IF "message" \in DOMAIN payload /\ ValidateMessageObj(payload.message) # <<>>
    THEN ValidateMessageObj(payload.message)
    ELSE IF "conversation" \notin DOMAIN payload
    THEN <<Detail("conversation", "\"conversation\" is required")>>
    ELSE IF ValidateConversationObj(payload.conversation) # <<>>
    THEN ValidateConversationObj(payload.conversation)
    ELSE IF "project" \in DOMAIN payload
    THEN ValidateProjectObj(payload.project)
    ELSE <<>>

\* webhookPayloadSchema.validate(payload, {allowUnknown: true}): Joi stops at
\* the first error; `conversation` refers to `message` and is therefore
\* validated after it.
EnvelopeErrors(payload) ==
    LET msgErrors ==
            IF "message" \in DOMAIN payload
            THEN ValidateMessageObj(payload.message) ELSE <<>>
        convErrors ==
            IF "conversation" \in DOMAIN payload
            THEN ValidateConversationObj(payload.conversation)
            ELSE IF "message" \in DOMAIN payload THEN <<>>
            ELSE <<Detail("conversation", "\"conversation\" is required")>>
        projErrors ==
            IF "project" \in DOMAIN payload
            THEN ValidateProjectObj(payload.project) ELSE <<>>
        eventErrors ==
            IF "event_type" \in DOMAIN payload /\ payload.event_type = ""
            THEN <<Detail("event_type", "\"event_type\" is not allowed to be empty")>>
            ELSE <<>>
    IN  IF msgErrors # <<>> THEN msgErrors
        ELSE IF convErrors # <<>> THEN convErrors
        ELSE IF projErrors # <<>> THEN projErrors
        ELSE eventErrors

\* o with the schema's default for the key f when o lacks it.
WithDefault(o, f, d) == IF f \in DOMAIN o THEN o ELSE o @@ (f :> d)

\* The `value` Joi returns for a valid payload: the payload with the defaults
\* of the schemas filled in (conversation.model, project.is_starred); keys the
\* schemas do not name are kept (stripUnknown: false).
NormalizedData(payload) ==
    [k \in DOMAIN payload |->
        CASE k = "conversation" -> WithDefault(payload[k], "model", "gpt-4")
          [] k = "project" -> WithDefault(payload[k], "is_starred", FALSE)
          [] OTHER -> payload[k]]

ValidateWebhookPayload(payload) ==
    LET errors == EnvelopeErrors(payload)
    IN  IF errors # <<>>
        THEN [isValid |-> FALSE, errors |-> errors]
        ELSE [isValid |-> TRUE, data |-> NormalizedData(payload)]

\* ----------------------------------------------------------- DatabaseService
\* Mutant of Upsert: on conflict the title is left as it was.
UpsertSkipsTitle(tbl, key, row, updated) ==
    IF \E i \in DOMAIN tbl : tbl[i][key] = row[key]
    THEN [i \in DOMAIN tbl |->
            IF tbl[i][key] = row[key]
            THEN [c \in DOMAIN tbl[i] |->
                    IF c \in updated \ {"title"} THEN row[c] ELSE tbl[i][c]]
            ELSE tbl[i]]
    ELSE Append(tbl, row)

\* INSERT ... ON DUPLICATE KEY UPDATE on a table whose unique key is `key`:
\* the row is appended when no row has its key, else the listed columns of
\* the row with that key are overwritten.  One statement, executed atomically.
Upsert(tbl, key, row, updated) ==
    IF \E i \in DOMAIN tbl : tbl[i][key] = row[key]
    THEN [i \in DOMAIN tbl |->
            IF tbl[i][key] = row[key]
            THEN [c \in DOMAIN tbl[i] |->
                    IF c \in updated THEN row[c] ELSE tbl[i][c]]
            ELSE tbl[i]]
    ELSE Append(tbl, row)

\* pool.execute(sql, params) throws a TypeError when a bind parameter is
\* undefined (SQL NULL must be given as null).
BindsUndefined(row, columns) == \E c \in columns : row[c] = Undefined

\* Mutant of InsertConversation: the conflict clause also assigns create_time.
InsertConversationAssignsCreateTime(tbl, row) ==
    Upsert(tbl, "conversation_id", row,
           {"title", "model", "create_time", "update_time", "project_id",
            "openai_thread_id"})

InsertConversation(tbl, row) ==
    Upsert(tbl, "conversation_id", row,
           {"title", "model", "update_time", "project_id", "openai_thread_id"})

InsertMessage(tbl, row) ==
    Upsert(tbl, "id", row,
           {"role", "content", "parts", "create_time", "parent", "children",
            "author_name"})

\* Mutant of CreateProjectUpdated: the conflict clause also assigns is_starred.
CreateProjectUpdatedWithStarred == {"description", "is_starred", "chatgpt_project_id"}

\* The columns the ON DUPLICATE KEY UPDATE clause of createProject assigns.
CreateProjectUpdated == {"description", "chatgpt_project_id"}

\* Mutant of CreateProject: a plain INSERT on a table without the unique key.
CreateProjectPlainInsert(tbl, row) == Append(tbl, row)

CreateProject(tbl, row) == Upsert(tbl, "name", row, CreateProjectUpdated)

\* const { name, description, is_starred = false, chatgpt_project_id } =
\* projectData: the bind parameters of createProject.
CreateProjectParams(projectData) ==
    [name               |-> Field(projectData, "name"),
     description        |-> Field(projectData, "description"),
     is_starred         |-> IF "is_starred" \in DOMAIN projectData
                            THEN projectData.is_starred ELSE FALSE,
     chatgpt_project_id |-> Field(projectData, "chatgpt_project_id")]

\* SELECT * FROM conversations WHERE conversation_id = ?  (results[0] || null)
GetConversation(tbl, conversationId) ==
    \E i \in DOMAIN tbl : tbl[i].conversation_id = conversationId

\* SELECT * FROM projects WHERE name = ?
GetProject(tbl, projectName) ==
    \E i \in DOMAIN tbl : tbl[i].name = projectName

\* ---------------------------------------------------------- WebhookController
KnownEventTypes ==
    {"conversation.created", "conversation.updated", "message.created",
     "message.updated"}

\* req.headers['x-event-type'] || 'unknown'
EventTypeOf(headers) == OrElse(Field(headers, EventHeader), "unknown")

\* The router calls the registered function value without a receiver, so
\* `this` is undefined inside handleChatGPTWebhook for a routed request.
ThisBound(entry) == entry # "route"

\* Mutant of ConversationCreatedRow: the dates pass through
\* validateTimestamp before they are bound.
ConversationCreatedRowSanitized(payload) ==
    LET conversation == payload.conversation IN
    [conversation_id  |-> conversation.id,
     title            |-> OrElse(Field(conversation, "title"), "Untitled"),
     model            |-> OrElse(Field(conversation, "model"), "gpt-4"),
     create_time      |-> ValidateTimestamp(conversation.create_time, now),
     update_time      |-> ValidateTimestamp(conversation.update_time, now),
     project_id       |-> IF "project" \in DOMAIN payload
                          THEN Field(payload.project, "id") ELSE Null,
     openai_thread_id |-> OrElse(Field(conversation, "openai_thread_id"), Null)]

\* The record handleConversationCreated passes to insertConversation.
ConversationCreatedRow(payload) ==
    LET conversation == payload.conversation IN
    [conversation_id  |-> conversation.id,
     title            |-> OrElse(Field(conversation, "title"), "Untitled"),
     model            |-> OrElse(Field(conversation, "model"), "gpt-4"),
     create_time      |-> ToDate(conversation.create_time),
     update_time      |-> ToDate(conversation.update_time),
     project_id       |-> IF "project" \in DOMAIN payload
                          THEN Field(payload.project, "id") ELSE Null,
     openai_thread_id |-> OrElse(Field(conversation, "openai_thread_id"), Null)]

\* The record handleConversationUpdated passes to insertConversation.
ConversationUpdatedRow(payload) ==
    LET conversation == payload.conversation IN
    [conversation_id  |-> conversation.id,
     title            |-> OrElse(Field(conversation, "title"), "Untitled"),
     model            |-> OrElse(Field(conversation, "model"), "gpt-4"),
     create_time      |-> ToDate(conversation.create_time),
     update_time      |-> ToDate(conversation.update_time),
     project_id       |-> OrElse(Field(conversation, "project_id"), Null),
     openai_thread_id |-> OrElse(Field(conversation, "openai_thread_id"), Null)]

\* The record handleConversationCreated passes to createProject (the column
\* is_starred takes the default of createProject's destructuring).
ProjectRow(project) ==
    [name               |-> project.name,
     description        |-> OrElse(Field(project, "description"), ""),
     is_starred         |-> FALSE,
     chatgpt_project_id |-> Field(project, "id")]

\* `x ? JSON.stringify(x) : null` for a property that may be absent.
StringifyOrNull(o, f) ==
    IF f \in DOMAIN o /\ Truthy(o[f]) THEN JSONstringifyValue(o[f]) ELSE Null

\* The record handleMessageCreated / handleMessageUpdated passes to
\* insertMessage; fallback is `conversation?.id` (message.created) or
\* undefined (message.updated).
MessageRow(message, fallback) ==
    [id              |-> message.id,
     conversation_id |-> OrElse(Field(message, "conversation_id"), fallback),
     role            |-> OrElse(Field(message, "role"), "user"),
     content         |-> StringifyOrNull(message, "content"),
     parts           |-> StringifyOrNull(message, "parts"),
     create_time     |-> ToDate(message.create_time),
     parent          |-> OrElse(Field(message, "parent"), Null),
     children        |-> StringifyOrNull(message, "children"),
     author_name     |-> IF "author" \in DOMAIN message
                         THEN OrElse(Field(message.author, "name"), Null)
                         ELSE Null]

\* res.status(200).json({status: 'success', eventType, result, timestamp})
Success(r, result) ==
    [r EXCEPT !.pc = "responded",
              !.res = Response(200, [status |-> "success",
                                     eventType |-> EventTypeOf(r.headers),
                                     result |-> result])]

\* The catch of handleChatGPTWebhook.
ServerError(r, message) ==
    [r EXCEPT !.pc = "responded",
              !.res = Response(500, [error |-> "Internal server error",
                                     message |-> message])]

BindError == "Bind parameters must not contain undefined"

\* The catch of manualSync.
SyncFailed(r, message) ==
    [r EXCEPT !.pc = "responded",
              !.res = Response(500, [error |-> "Sync failed",
                                     message |-> message])]

\* manualSync: res.status(200).json({status: 'success', result, timestamp})
SyncSuccess(r, result) ==
    [r EXCEPT !.pc = "responded",
              !.res = Response(200, [status |-> "success", result |-> result])]

\* The routine of the request returns `result` to the handler that awaits it.
Return(r, result) ==
    IF r.kind = "sync" THEN SyncSuccess(r, result) ELSE Success(r, result)

\* The routine of the request throws: its own catch logs and rethrows, the
\* catch of the handler that awaits it answers.
Throw(r, message) ==
    IF r.kind = "sync" THEN SyncFailed(r, message) ELSE ServerError(r, message)

\* The object the handler passes to the routine: the body of a webhook, the
\* `data` of a manual sync.
PayloadOf(r) == IF r.kind = "sync" THEN r.body.data ELSE r.body

\* The routine the handler selects: manualSync runs handleConversationCreated
\* for type 'conversation' and handleMessageCreated for type 'message'.
RoutineOf(r) ==
    IF r.kind = "sync"
    THEN IF r.body.type = "conversation" THEN "conversation.created"
         ELSE "message.created"
    ELSE EventTypeOf(r.headers)

\* The handler is about to evaluate the argument of insertConversation, which
\* reads conversation.id: a TypeError when the payload has no conversation.
ToInsertConversation(r) ==
    IF "conversation" \in DOMAIN PayloadOf(r)
    THEN [r EXCEPT !.pc = "insertConversation"]
    ELSE Throw(r, "Cannot read properties of undefined (reading 'id')")

\* Likewise for insertMessage and message.id.
ToInsertMessage(r) ==
    IF "message" \in DOMAIN PayloadOf(r)
    THEN [r EXCEPT !.pc = "insertMessage"]
    ELSE Throw(r, "Cannot read properties of undefined (reading 'id')")

\* The selected routine from its entry to its first await.
EnterRoutine(r) ==
    LET payload == PayloadOf(r)
        routine == RoutineOf(r)
    IN  CASE routine = "conversation.created" ->
                IF "project" \in DOMAIN payload
                THEN [r EXCEPT !.pc = "getProject"]
                ELSE ToInsertConversation(r)
          [] routine = "conversation.updated" -> ToInsertConversation(r)
          [] routine = "message.created" ->
                IF "conversation" \in DOMAIN payload
                THEN [r EXCEPT !.pc = "getConversation"]
                ELSE ToInsertMessage(r)
          [] routine = "message.updated" -> ToInsertMessage(r)

\* Mutant of Dispatch: the default arm throws instead of answering 'ignored'.
DispatchDefaultThrows(r, eventType) ==
    IF eventType \notin KnownEventTypes \/ ~ThisBound(r.entry)
    THEN ServerError(r, "Unhandled event type")
    ELSE EnterRoutine(r)

\* The switch of handleChatGPTWebhook, up to the first await of the routine
\* it selects.
Dispatch(r, eventType) ==
    IF eventType \notin KnownEventTypes
    THEN Success(r, [status |-> "ignored", eventType |-> eventType])
    ELSE IF ~ThisBound(r.entry)
    THEN ServerError(r, "Cannot read properties of undefined")
    ELSE EnterRoutine(r)

\* Mutant of EnterHandler: the validation result is logged but the handler
\* does not return on it.
EnterHandlerIgnoresValidation(r) == Dispatch(r, EventTypeOf(r.headers))

\* handleChatGPTWebhook from its entry to its first await or its answer.
EnterHandler(r) ==
    LET validation == ValidateWebhookPayload(r.body) IN
    IF ~validation.isValid
    THEN [r EXCEPT !.pc = "responded",
                   !.res = Response(400, [error |-> "Invalid payload",
                                          details |-> validation.errors])]
    ELSE Dispatch(r, EventTypeOf(r.headers))

Issued(r, op) == [r EXCEPT !.ops = Append(@, op)]

\* pool.execute rejects when the server cannot be reached.
StorageError == "connect ECONNREFUSED"

\* What DatabaseService.query throws for the statement, or "" when the
\* statement executes: the connection error, else the bind error.
QueryError(up, row, columns) ==
    IF ~up THEN StorageError
    ELSE IF BindsUndefined(row, columns) THEN BindError
    ELSE ""

\* Mutant of StoreThrows: the handler's catch answers success.
StoreThrowsSwallowed(r, message) ==
    Return([r EXCEPT !.threw = TRUE], [status |-> "error", message |-> message])

\* A store call of the request threw: query logs and rethrows, the routine
\* logs and rethrows, the handler's catch answers.
StoreThrows(r, message) == Throw([r EXCEPT !.threw = TRUE], message)

HandleChatGPTWebhook(i) ==
    /\ req[i].kind = "webhook"
    /\ req[i].pc = "handler"
    /\ req' = [req EXCEPT ![i] = EnterHandler(req[i])]
    /\ UNCHANGED <<dbUp, now, projects, conversations, messages>>

\* handleConversationCreated: await database.getProject(project.name)
GetProjectStep(i) ==
    /\ req[i].pc = "getProject"
    /\ LET r == Issued(req[i], "getProject")
           project == PayloadOf(r).project
           error == QueryError(dbUp, [name |-> Field(project, "name")], {"name"})
       IN  req' = [req EXCEPT ![i] =
                 IF error # "" THEN StoreThrows(r, error)
                 ELSE IF GetProject(projects, project.name)
                 THEN ToInsertConversation(r)
                 ELSE [r EXCEPT !.pc = "createProject"]]
    /\ UNCHANGED <<dbUp, now, projects, conversations, messages>>

\* handleConversationCreated: await database.createProject({...})
CreateProjectStep(i) ==
    /\ req[i].pc = "createProject"
    /\ LET row == ProjectRow(PayloadOf(req[i]).project)
           r == Issued(req[i], "createProject")
           error == QueryError(dbUp, row, {"name", "description", "chatgpt_project_id"})
       IN  IF error # ""
           THEN /\ req' = [req EXCEPT ![i] = StoreThrows(r, error)]
                /\ UNCHANGED projects
           ELSE /\ projects' = CreateProject(projects, row)
                /\ req' = [req EXCEPT ![i] = ToInsertConversation(r)]
    /\ UNCHANGED <<dbUp, now, conversations, messages>>

\* The record the running routine passes to insertConversation: the nested
\* call of handleMessageCreated passes {conversation} alone.
ConversationRowOf(r) ==
    CASE RoutineOf(r) = "conversation.updated" ->
            ConversationUpdatedRow(PayloadOf(r))
      [] RoutineOf(r) = "message.created" ->
            ConversationCreatedRow([conversation |-> PayloadOf(r).conversation])
      [] OTHER -> ConversationCreatedRow(PayloadOf(r))

\* await database.insertConversation({...}) and the code after it.
InsertConversationStep(i) ==
    /\ req[i].pc = "insertConversation"
    /\ LET row == ConversationRowOf(req[i])
           r == Issued(req[i], "insertConversation")
           routine == RoutineOf(r)
           error == QueryError(dbUp, row, {"conversation_id", "title", "model",
                                           "project_id", "openai_thread_id"})
       IN  IF error # ""
           THEN /\ req' = [req EXCEPT ![i] = StoreThrows(r, error)]
                /\ UNCHANGED conversations
           ELSE /\ conversations' = InsertConversation(conversations, row)
                /\ req' = [req EXCEPT ![i] =
                      CASE routine = "message.created" -> ToInsertMessage(r)
                        [] routine = "conversation.updated" ->
                             Return(r, [status |-> "conversation_updated",
                                        conversationId |-> row.conversation_id])
                        [] OTHER ->
                             Return(r, [status |-> "conversation_created",
                                        conversationId |-> row.conversation_id])]
    /\ UNCHANGED <<dbUp, now, projects, messages>>

\* handleMessageCreated: await database.getConversation(conversation.id)
GetConversationStep(i) ==
    /\ req[i].pc = "getConversation"
    /\ LET r == Issued(req[i], "getConversation")
           conversation == PayloadOf(r).conversation
           error == QueryError(dbUp, [id |-> Field(conversation, "id")], {"id"})
       IN  req' = [req EXCEPT ![i] =
                 IF error # "" THEN StoreThrows(r, error)
                 ELSE IF GetConversation(conversations, conversation.id)
                 THEN ToInsertMessage(r)
                 ELSE ToInsertConversation(r)]
    /\ UNCHANGED <<dbUp, now, projects, conversations, messages>>

\* The record the running routine passes to insertMessage.
MessageRowOf(r) ==
    MessageRow(PayloadOf(r).message,
               IF RoutineOf(r) = "message.created"
                  /\ "conversation" \in DOMAIN PayloadOf(r)
               THEN Field(PayloadOf(r).conversation, "id")
               ELSE Undefined)

\* await database.insertMessage({...}) and the code after it.
InsertMessageStep(i) ==
    /\ req[i].pc = "insertMessage"
    /\ LET row == MessageRowOf(req[i])
           r == Issued(req[i], "insertMessage")
           error == QueryError(dbUp, row, {"id", "conversation_id", "role", "parent"})
       IN  IF error # ""
           THEN /\ req' = [req EXCEPT ![i] = StoreThrows(r, error)]
                /\ UNCHANGED messages
           ELSE /\ messages' = InsertMessage(messages, row)
                /\ req' = [req EXCEPT ![i] =
                      Return(r, [status |-> IF RoutineOf(r) = "message.created"
                                            THEN "message_created"
                                            ELSE "message_updated",
                                 messageId |-> row.id])]
    /\ UNCHANGED <<dbUp, now, projects, conversations>>

\* webhookController.handleChatGPTWebhook(req, res) called on the instance.
MethodCall(inputs) ==
    /\ Len(req) < NumRequests
    /\ \E in \in inputs :
          req' = Append(req, NewRequest("method", in.headers, in.raw, NotRun, now))
    /\ UNCHANGED <<dbUp, now, projects, conversations, messages>>

\* ------------------------------------------------------------- manualSync
\* A request of POST /sync/manual as it enters the handler chain.
NewSyncRequest(entry, headers, raw, auth, at) ==
    [NewRequest(entry, headers, raw, auth, at) EXCEPT !.kind = "sync"]

\* POST /sync/manual: the request passes validateApiKey, which either answers
\* it or calls next().
RouteManualSync(inputs) ==
    /\ Len(req) < NumRequests
    /\ \E in \in inputs :
          req' = Append(req,
                   NewSyncRequest("route", in.headers, in.raw,
                                  ValidateApiKey(in.headers), now))
    /\ UNCHANGED <<dbUp, now, projects, conversations, messages>>

\* webhookController.manualSync(req, res) called on the instance.
ManualSyncCall(inputs) ==
    /\ Len(req) < NumRequests
    /\ \E in \in inputs :
          req' = Append(req, NewSyncRequest("method", in.headers, in.raw, NotRun, now))
    /\ UNCHANGED <<dbUp, now, projects, conversations, messages>>

\* manualSync from its entry to the first await of the routine it selects,
\* or to its answer: the switch on `type`, then the destructuring of `data`
\* in the routine.
EnterManualSync(r) ==
    IF Field(r.body, "type") \notin {"conversation", "message"}
    THEN [r EXCEPT !.pc = "responded",
                   !.res = Response(400, [error |-> "Invalid sync type"])]
    ELSE IF ~ThisBound(r.entry)
    THEN SyncFailed(r, "Cannot read properties of undefined")
    ELSE IF "data" \notin DOMAIN r.body
    THEN SyncFailed(r, "Cannot destructure property of undefined")
    ELSE EnterRoutine(r)

ManualSync(i) ==
    /\ req[i].kind = "sync"
    /\ req[i].pc = "handler"
    /\ req' = [req EXCEPT ![i] = EnterManualSync(req[i])]
    /\ UNCHANGED <<dbUp, now, projects, conversations, messages>>

\* ------------------------------------------------------------ healthCheck
\* DatabaseService.healthCheck: testConnection (getConnection, ping) inside a
\* try whose catch returns the 'unhealthy' report; it never rejects.
DatabaseHealthCheck(up) ==
    IF up THEN [threw |-> FALSE, value |-> [status |-> "healthy"]]
    ELSE [threw |-> FALSE, value |-> [status |-> "unhealthy", error |-> StorageError]]

\* Mutant of HealthCheckAnswer: the status code does not depend on the report.
HealthCheckAnswerAlwaysOk(outcome) ==
    IF outcome.threw
    THEN Response(503, [status |-> "unhealthy", error |-> outcome.message])
    ELSE Response(200, [status |-> "healthy", database |-> outcome.value])

\* WebhookController.healthCheck after `await database.healthCheck()`: the
\* answer for the awaited outcome (the catch answers when the await throws).
HealthCheckAnswer(outcome) ==
    IF outcome.threw
    THEN Response(503, [status |-> "unhealthy", error |-> outcome.message])
    ELSE Response(IF outcome.value.status = "healthy" THEN 200 ELSE 503,
                  [status |-> "healthy", database |-> outcome.value])

\* GET /health arrives and the handler awaits database.healthCheck().
GetHealth ==
    /\ Len(req) < NumRequests
    /\ req' = Append(req,
                 [NewRequest("route", [h \in {} |-> ""],
                             RawBody([f \in {} |-> ""], "compact"), CallNext, now)
                    EXCEPT !.kind = "health", !.pc = "healthCheck"])
    /\ UNCHANGED <<dbUp, now, projects, conversations, messages>>

\* database.healthCheck() settles and the handler answers.
HealthCheck(i) ==
    /\ req[i].kind = "health"
    /\ req[i].pc = "healthCheck"
    /\ req' = [req EXCEPT ![i] =
                 [@ EXCEPT !.pc = "responded",
                           !.res = HealthCheckAnswer(DatabaseHealthCheck(dbUp))]]
    /\ UNCHANGED <<dbUp, now, projects, conversations, messages>>

\* The MySQL server becomes unreachable.
Outage ==
    /\ dbUp
    /\ dbUp' = FALSE
    /\ UNCHANGED <<now, req, projects, conversations, messages>>

\* The MySQL server is reachable again.
Restore ==
    /\ ~dbUp
    /\ dbUp' = TRUE
    /\ UNCHANGED <<now, req, projects, conversations, messages>>

\* ---------------------------------------------------------- sample payloads
ConvA == [id |-> "c1", title |-> "T", create_time |-> 10, update_time |-> 10]
ConvA2 ==
    [id |-> "c1", title |-> "T2", model |-> "gpt-3.5", create_time |-> 20,
     update_time |-> 30, project_id |-> "p9", openai_thread_id |-> "th1"]
ConvNoId == [title |-> "T", create_time |-> 10, update_time |-> 10]
MsgA ==
    [id |-> "m1", conversation_id |-> "c1", role |-> "user",
     content |-> Str("hi"), create_time |-> 10]
MsgOther ==
    [id |-> "m1", conversation_id |-> "c2", role |-> "assistant",
     content |-> Obj("{\"k\":1}"), create_time |-> 20]
ProjA == [id |-> "p1", name |-> "P", description |-> "d"]
MsgNoContent == [id |-> "m2", conversation_id |-> "c1", role |-> "user", create_time |-> 10]
MsgNullContent == [MsgNoContent EXCEPT !.id = "m5"] @@ [content |-> NullValue]
MsgEmptyContent == [MsgNoContent EXCEPT !.id = "m6"] @@ [content |-> Str("")]
MsgDangling ==
    [id |-> "m4", conversation_id |-> "c9", role |-> "user",
     content |-> Str("hi"), create_time |-> 10]
ProjA2 == [id |-> "p2", name |-> "P", description |-> "e"]
\* A conversation dated more than a year after the clock of the ingest runs.
ConvFuture == [id |-> "c3", title |-> "F", create_time |-> 80000000, update_time |-> 80000000]
MsgAdmin ==
    [id |-> "m3", conversation_id |-> "c1", role |-> "admin",
     content |-> Str("hi"), create_time |-> 10]

PayloadConv == [conversation |-> ConvA]
PayloadConv2 == [conversation |-> ConvA2, project |-> ProjA]
PayloadMsg == [message |-> MsgA, conversation |-> ConvA]
PayloadMsgOnly == [message |-> MsgA]
PayloadMsgOther == [message |-> MsgOther, conversation |-> ConvA]
PayloadNoId == [conversation |-> ConvNoId]
PayloadElse == [conversation |-> ConvA, event_type |-> "something.else"]
PayloadEmpty == [event_type |-> "something.else"]

\* ------------------------------------------------------------ the verifier
\* The clock readings at which requests are verified: 301, 300 and 0 seconds
\* before the signed timestamp 400, and 299, 300 and 301 seconds after it.
NowPoints == {99, 100, 400, 699, 700, 701}
SignedTs == <<"4", "0", "0">>

Headers(sig, ts) == (SigHeader :> sig) @@ (TsHeader :> ts)

\* What a sender holding `key` puts in the signature header for the bytes
\* `raw` sent at `ts`.
Sign(key, ts, raw) == SigValue(FALSE, HmacHex(key, SignedMessage(ts, raw)), FALSE)

SigBodies ==
    {RawBody(PayloadMsg, "compact"), RawBody(PayloadMsg, "spaced"),
     RawBody(PayloadConv, "compact")}

SigInputs ==
    LET b0 == RawBody(PayloadMsg, "compact")
        good == Sign(WebhookSecret, SignedTs, b0)
    IN  \* any body, with a signature made for any body
        {[headers |-> Headers(Sign(WebhookSecret, SignedTs, signed), SignedTs),
          raw |-> raw] : raw \in SigBodies, signed \in SigBodies}
        \cup
        {[headers |-> Headers(sig, SignedTs), raw |-> b0] :
            sig \in {[good EXCEPT !.prefix = TRUE],
                     [good EXCEPT !.junk = TRUE],
                     Sign("other-secret", SignedTs, b0),
                     [good EXCEPT !.hex = SubSeq(good.hex, 1, DigestLen - 1)],
                     [good EXCEPT !.hex = <<>>, !.junk = TRUE]}}
        \cup
        {[headers |-> (SigHeader :> good), raw |-> b0],
         [headers |-> (TsHeader :> SignedTs), raw |-> b0],
         [headers |-> Headers(Sign(WebhookSecret, <<"x">>, b0), <<"x">>), raw |-> b0],
         [headers |-> Headers(Sign(WebhookSecret, SignedTs \o <<"x">>, b0),
                              SignedTs \o <<"x">>),
          raw |-> b0]}

Tick == /\ \E t \in NowPoints : t > now /\ now' = t
        /\ UNCHANGED <<dbUp, req, projects, conversations, messages>>

InitSig ==
    /\ now = 99
    /\ req = <<>>
    /\ projects = <<>>
    /\ conversations = <<>>
    /\ messages = <<>>
    /\ dbUp = TRUE

NextSig == RouteWebhook(SigInputs) \/ Tick

SpecSig == InitSig /\ [][NextSig]_vars

\* The requests that reached the signature comparison with an integer
\* timestamp header.
HasCredentials(r) ==
    r.entry = "route" /\ SigHeader \in DOMAIN r.headers /\ TsHeader \in DOMAIN r.headers

SignedTime(r) == ParseInt(r.headers[TsHeader])

RejectedAs(r, status, error) ==
    r.res.status = status /\ r.res.body.error = error /\ ~r.auth.next

\* C3: a request is answered 401 'Request too old' exactly when its integer
\* timestamp T and the verification time differ by more than 300 seconds, in
\* either direction; at a distance of 300 or less it is not rejected as stale.
C3_ReplayWindow ==
    \A i \in DOMAIN req :
        LET r == req[i] IN
        (HasCredentials(r) /\ ~SignedTime(r).nan) =>
            LET d == r.at - SignedTime(r).n IN
            /\ (d > 300 \/ d < -300) => RejectedAs(r, 401, "Request too old")
            /\ (d <= 300 /\ d >= -300) =>
                   ~(r.res.status = 401 /\ r.res.body.error = "Request too old")

\* C3 witness: one correctly signed request accepted exactly 300 seconds after
\* its timestamp, another rejected as stale 301 seconds after it.
C3_Witness ==
    \E i, j \in DOMAIN req :
        /\ HasCredentials(req[i]) /\ ~SignedTime(req[i]).nan
        /\ req[i].at - SignedTime(req[i]).n = 300
        /\ req[i].auth.next
        /\ HasCredentials(req[j]) /\ ~SignedTime(req[j]).nan
        /\ req[j].at - SignedTime(req[j]).n = 301
        /\ RejectedAs(req[j], 401, "Request too old")

\* C4: no two accepted requests carry the same signature and timestamp with
\* raw bodies that differ.
C4_SignatureBinding ==
    \A i, j \in DOMAIN req :
        ( /\ req[i].entry = "route" /\ req[j].entry = "route"
          /\ req[i].auth.next
          /\ req[i].headers = req[j].headers
          /\ req[i].rawBody # req[j].rawBody ) => ~req[j].auth.next

\* The signature a sender computes over the exact bytes of the request.
SignedOverRawBody(r) ==
    /\ HasCredentials(r)
    /\ StripPrefix(r.headers[SigHeader]).hex =
           HmacHex(WebhookSecret, SignedMessage(r.headers[TsHeader], r.rawBody))
    /\ ~r.headers[SigHeader].junk

Fresh(r) ==
    ~SignedTime(r).nan /\ r.at - SignedTime(r).n <= 300 /\ SignedTime(r).n - r.at <= 300

\* C5: a request signed over its raw bytes with a fresh timestamp is accepted,
\* whatever the layout of the raw JSON.
C5_HashesRawBody ==
    \A i \in DOMAIN req :
        (SignedOverRawBody(req[i]) /\ Fresh(req[i])) => req[i].auth.next

\* C6: a fresh request whose signature does not decode to the expected digest
\* (wrong bytes or wrong length) is answered 401 'Invalid signature', never 5xx,
\* and next() is not called.
C6_BadSignatureRejected ==
    \A i \in DOMAIN req :
        LET r == req[i] IN
        ( /\ HasCredentials(r) /\ Fresh(r)
          /\ BufferFromHex(StripPrefix(r.headers[SigHeader])) #
                HmacHex(WebhookSecret,
                        SignedMessage(r.headers[TsHeader], JSONstringify(r.body))) )
        => RejectedAs(r, 401, "Invalid signature")
\* ------------------------------------------------------------ the pipeline
\* A correctly signed webhook for the compact body of `payload`, with the
\* given headers besides.
Signed(payload, extra) ==
    LET raw == RawBody(payload, "compact") IN
    [headers |-> Headers(Sign(WebhookSecret, SignedTs, raw), SignedTs) @@ extra,
     raw |-> raw]

Event(eventType) == (EventHeader :> eventType)
NoEvent == [h \in {} |-> ""]

\* The webhooks delivered through the route.
RouteInputs ==
    {Signed(PayloadMsg, Event(e)) : e \in KnownEventTypes}
    \cup
    {Signed(PayloadElse, NoEvent), Signed(PayloadElse, Event("something.else")),
     Signed(PayloadEmpty, NoEvent), Signed(PayloadNoId, Event("conversation.created")),
     [headers |-> Event("conversation.created"), raw |-> RawBody(PayloadConv, "compact")]}
    \cup
    \* one of the two headers is absent; the signature was made with another key
    {[Signed(PayloadMsg, Event("message.created")) EXCEPT
          !.headers = [h \in DOMAIN @ \ {SigHeader} |-> @[h]]],
     [Signed(PayloadMsg, Event("message.created")) EXCEPT
          !.headers = [h \in DOMAIN @ \ {TsHeader} |-> @[h]]],
     [headers |-> Headers(Sign("other-secret", SignedTs, RawBody(PayloadNoId, "compact")),
                          SignedTs) @@ Event("conversation.created"),
      raw |-> RawBody(PayloadNoId, "compact")]}

Call(payload, eventType) ==
    [headers |-> Event(eventType), raw |-> RawBody(payload, "compact")]

\* The events handed to the controller's method.
MethodInputs ==
    {Call(p, e) : p \in {PayloadConv, PayloadConv2},
                  e \in {"conversation.created", "conversation.updated"}}
    \cup
    {Call(p, "message.created") : p \in {PayloadMsg, PayloadMsgOther, PayloadMsgOnly}}
    \cup
    {Call(PayloadMsg, "message.updated"), Call(PayloadElse, "something.else"),
     Call(PayloadNoId, "conversation.updated")}

Init ==
    /\ now = 400
    /\ req = <<>>
    /\ projects = <<>>
    /\ conversations = <<>>
    /\ messages = <<>>
    /\ dbUp = TRUE

Next ==
    \/ RouteWebhook(RouteInputs)
    \/ MethodCall(MethodInputs)
    \/ \E i \in DOMAIN req : HandleChatGPTWebhook(i)
    \/ \E i \in DOMAIN req : GetProjectStep(i)
    \/ \E i \in DOMAIN req : CreateProjectStep(i)
    \/ \E i \in DOMAIN req : InsertConversationStep(i)
    \/ \E i \in DOMAIN req : GetConversationStep(i)
    \/ \E i \in DOMAIN req : InsertMessageStep(i)

Spec == Init /\ [][Next]_vars

\* ------------------------------------------------------- the event routines
\* The events handed to the controller's method: messages with string,
\* object, null, empty and absent content, with and without the conversation
\* they name; conversations with a project, with dates far from the clock, and
\* envelopes with keys the schemas do not name.
IngestInputs ==
    {Call(PayloadMsg, "message.created"),
     Call([message |-> MsgNoContent, conversation |-> ConvA], "message.created"),
     Call([message |-> MsgNullContent], "message.updated"),
     Call([message |-> MsgEmptyContent, conversation |-> ConvA], "message.created"),
     Call([message |-> MsgDangling], "message.created"),
     Call(PayloadMsgOther, "message.updated"),
     Call(PayloadConv2, "conversation.created"),
     Call([conversation |-> ConvA, project |-> ProjA2], "conversation.created"),
     Call([conversation |-> ConvFuture, source |-> "import", timestamp |-> 80000000],
          "conversation.updated"),
     Call([project |-> ProjA, source |-> "import"], "conversation.created")}

\* The clock reads more than a year after the dates of the sample payloads.
InitIngest ==
    /\ now = 40000000
    /\ req = <<>>
    /\ projects = <<>>
    /\ conversations = <<>>
    /\ messages = <<>>
    /\ dbUp = TRUE

NextIngest ==
    \/ MethodCall(IngestInputs)
    \/ \E i \in DOMAIN req : HandleChatGPTWebhook(i)
    \/ \E i \in DOMAIN req : GetProjectStep(i)
    \/ \E i \in DOMAIN req : CreateProjectStep(i)
    \/ \E i \in DOMAIN req : InsertConversationStep(i)
    \/ \E i \in DOMAIN req : GetConversationStep(i)
    \/ \E i \in DOMAIN req : InsertMessageStep(i)

SpecIngest == InitIngest /\ [][NextIngest]_vars

\* ------------------------------------------------- the guarded manual sync
SyncBody(type, data) == RawBody([type |-> type, data |-> data], "compact")

OtherKey == <<"k", "2">>

\* The credentials presented to validateApiKey.
GuardHeaders ==
    {[h \in {} |-> <<>>],
     (ApiKeyHeader :> ConfiguredApiKey),
     (ApiKeyHeader :> OtherKey),
     (ApiKeyHeader :> ConfiguredApiKey \o <<"x">>),
     (ApiKeyHeader :> <<"k">> \o BearerPrefix \o <<"1">>),
     (AuthorizationHeader :> BearerPrefix \o ConfiguredApiKey),
     (AuthorizationHeader :> ApiKeyPrefix \o ConfiguredApiKey),
     (AuthorizationHeader :> ConfiguredApiKey),
     (AuthorizationHeader :> BearerPrefix \o OtherKey),
     (ApiKeyHeader :> OtherKey) @@ (AuthorizationHeader :> BearerPrefix \o ConfiguredApiKey),
     (ApiKeyHeader :> <<>>) @@ (AuthorizationHeader :> BearerPrefix \o ConfiguredApiKey)}

\* The manual syncs posted to the route.
GuardInputs ==
    {[headers |-> h, raw |-> SyncBody("conversation", PayloadConv)] : h \in GuardHeaders}
    \cup
    {[headers |-> (ApiKeyHeader :> ConfiguredApiKey), raw |-> raw] :
        raw \in {SyncBody("conversation", [project |-> ProjA]),
                 SyncBody("project", PayloadConv)}}

\* The manual syncs handed to the controller's method.
SyncInputs ==
    {[headers |-> (ApiKeyHeader :> ConfiguredApiKey), raw |-> raw] :
        raw \in {SyncBody("conversation", PayloadConv2),
                 SyncBody("conversation", [project |-> ProjA]),
                 SyncBody("message", PayloadMsg),
                 SyncBody("message", [conversation |-> ConvA]),
                 SyncBody("message", [message |-> MsgAdmin]),
                 SyncBody("project", PayloadConv),
                 RawBody([type |-> "conversation"], "compact")}}

NextGuard ==
    \/ RouteManualSync(GuardInputs)
    \/ ManualSyncCall(SyncInputs)
    \/ \E i \in DOMAIN req : ManualSync(i)
    \/ \E i \in DOMAIN req : GetProjectStep(i)
    \/ \E i \in DOMAIN req : CreateProjectStep(i)
    \/ \E i \in DOMAIN req : InsertConversationStep(i)
    \/ \E i \in DOMAIN req : GetConversationStep(i)
    \/ \E i \in DOMAIN req : InsertMessageStep(i)

SpecGuard == Init /\ [][NextGuard]_vars

\* ----------------------------------------------- the pipeline under outages
\* The events handed to the controller's method while the server comes and
\* goes.
OutageInputs ==
    {Call(PayloadMsg, "message.created"), Call(PayloadConv2, "conversation.created")}

NextOutage ==
    \/ MethodCall(OutageInputs)
    \/ GetHealth
    \/ Outage
    \/ Restore
    \/ \E i \in DOMAIN req : HandleChatGPTWebhook(i)
    \/ \E i \in DOMAIN req : HealthCheck(i)
    \/ \E i \in DOMAIN req : GetProjectStep(i)
    \/ \E i \in DOMAIN req : CreateProjectStep(i)
    \/ \E i \in DOMAIN req : InsertConversationStep(i)
    \/ \E i \in DOMAIN req : GetConversationStep(i)
    \/ \E i \in DOMAIN req : InsertMessageStep(i)

SpecOutage == Init /\ [][NextOutage]_vars

\* ------------------------------------- the project store, called directly
\* database.createProject(projectData), awaited to its end: one statement.
\* The call is logged with its argument and whether it threw.
CreateProjectCall(inputs) ==
    /\ Len(req) < NumRequests
    /\ \E projectData \in inputs :
         LET row == CreateProjectParams(projectData)
             error == QueryError(dbUp, row, {"name", "description", "chatgpt_project_id"})
         IN  /\ req' = Append(req, [kind |-> "store", data |-> projectData,
                                     at |-> now, pc |-> "responded",
                                     threw |-> error # ""])
             /\ projects' = IF error # "" THEN projects
                             ELSE CreateProject(projects, row)
    /\ UNCHANGED <<dbUp, now, conversations, messages>>

\* Arguments of createProject: two names, two descriptions, two external ids,
\* is_starred given or not, and one argument without description.
StoreInputs ==
    {[name |-> n, description |-> d, chatgpt_project_id |-> c]
        : n \in {"P", "Q"}, d \in {"d", "e"}, c \in {"p1", "p2"}}
    \cup {[name |-> n, description |-> d, chatgpt_project_id |-> c, is_starred |-> s]
        : n \in {"P", "Q"}, d \in {"d", "e"}, c \in {"p1", "p2"}, s \in BOOLEAN}
    \cup {[name |-> "P", chatgpt_project_id |-> "p1"]}

NextStore == CreateProjectCall(StoreInputs)

SpecStore == Init /\ [][NextStore]_vars

\* ------------------------------- ChatBETODatabaseService.cleanMessageContent
\* Message content is a sequence of characters: a letter, the space, and the
\* characters U+000A, U+000D and U+0000, written by name.
LF == "LF"
CR == "CR"
NUL == "NUL"
Alphabet == {"a", " ", LF, CR, NUL}

\* What String.prototype.trim removes (U+0000 is not white space).
WhiteSpace == {" ", LF, CR}

\* The class [\x00-\x1F\x7F].
ControlChars == {NUL, LF, CR}

RECURSIVE TrimStart(_)
TrimStart(s) ==
    IF s # <<>> /\ Head(s) \in WhiteSpace THEN TrimStart(Tail(s)) ELSE s

RECURSIVE TrimEnd(_)
TrimEnd(s) ==
    IF s # <<>> /\ s[Len(s)] \in WhiteSpace
    THEN TrimEnd(SubSeq(s, 1, Len(s) - 1)) ELSE s

\* content.trim()
Trim(s) == TrimEnd(TrimStart(s))

\* .replace(/[\x00-\x1F\x7F]/g, '')
RECURSIVE RemoveControl(_)
RemoveControl(s) ==
    IF s = <<>> THEN <<>>
    ELSE IF Head(s) \in ControlChars THEN RemoveControl(Tail(s))
    ELSE <<Head(s)>> \o RemoveControl(Tail(s))

\* .replace(/\r\n/g, '\n')
RECURSIVE ReplaceCRLF(_)
ReplaceCRLF(s) ==
    IF s = <<>> THEN <<>>
    ELSE IF Len(s) >= 2 /\ s[1] = CR /\ s[2] = LF
    THEN <<LF>> \o ReplaceCRLF(SubSeq(s, 3, Len(s)))
    ELSE <<Head(s)>> \o ReplaceCRLF(Tail(s))

\* .replace(/\r/g, '\n')
ReplaceCR(s) == [k \in DOMAIN s |-> IF s[k] = CR THEN LF ELSE s[k]]

\* cleanMessageContent(content): '' for an empty content, else trim, then the
\* three replacements in the order of the source.  (Buffer.from(cleaned,
\* 'utf8').toString('utf8') gives the same characters back.)
CleanMessageContent(content) ==
    IF content = <<>> THEN <<>>
    ELSE ReplaceCR(ReplaceCRLF(RemoveControl(Trim(content))))

\* The longest content tried.
MaxContentLen == 3

RECURSIVE StringsUpTo(_)
StringsUpTo(n) ==
    IF n = 0 THEN {<<>>}
    ELSE LET shorter == StringsUpTo(n - 1) IN
         shorter \cup {Append(t, c) : t \in shorter, c \in Alphabet}

\* cleanMessageContent is applied to a content, once in a behaviour; the call
\* is logged with its argument and its result.
CleanCall ==
    /\ req = <<>>
    /\ \E content \in StringsUpTo(MaxContentLen) :
         req' = <<[kind |-> "clean", at |-> now, pc |-> "responded",
                   content |-> content, result |-> CleanMessageContent(content)]>>
    /\ UNCHANGED <<dbUp, now, projects, conversations, messages>>

NextClean == CleanCall

SpecClean == Init /\ [][NextClean]_vars

\* ------------------------------------------------- ChatBETODatabaseService
\* The report module keeps its own rows in conversations and messages:
\*   conversations  id (primary key), conversation_id, title, project_id
\*   messages       id (primary key), conversation_id, role, content,
\*                  created_at_timestamp_ms
\* Titles and contents are sequences of characters.  Every call of the
\* service is logged in req with its arguments and what it returned or threw;
\* the dates of the report rows are left out.

\* uuidv4(): a value no caller supplies, new for every call.
Uuid(n) == "uuid-" \o ToString(n)

ReportCall(op, args, thrown, result) ==
    [kind |-> "report", at |-> now, pc |-> "responded", op |-> op,
     args |-> args, thrown |-> thrown, result |-> result]

\* insertConversation(conversationData): the INSERT ... ON DUPLICATE KEY UPDATE
\* on the primary key id.
ChatBETOUpsertConversation(tbl, row) ==
    IF \E n \in DOMAIN tbl : tbl[n].id = row.id
    THEN [n \in DOMAIN tbl |->
            IF tbl[n].id = row.id
            THEN [tbl[n] EXCEPT !.title = row.title, !.project_id = row.project_id]
            ELSE tbl[n]]
    ELSE Append(tbl, row)

ChatBETOInsertConversation(data) ==
    LET uuid == Uuid(Len(req) + 1)
        conversationUuid == IF "id" \in DOMAIN data THEN data.id ELSE uuid
        cleanTitle == Trim(data.title)
        thrown == IF data.conversation_id = "" THEN "conversation_id es requerido"
                  ELSE IF cleanTitle = <<>>
                  THEN "title es requerido y debe ser un string no vacío"
                  ELSE IF ~dbUp THEN "Error al insertar conversación"
                  ELSE ""
    IN  /\ conversations' =
              IF thrown # "" THEN conversations
              ELSE ChatBETOUpsertConversation(conversations,
                       [id |-> conversationUuid,
                        conversation_id |-> data.conversation_id,
                        title |-> cleanTitle,
                        project_id |-> data.project_id])
        /\ req' = Append(req, ReportCall("insertConversation", data, thrown,
                     IF thrown # "" THEN NullValue
                     ELSE [success |-> TRUE,
                           conversationId |-> data.conversation_id,
                           conversationUuid |-> conversationUuid,
                           title |-> cleanTitle]))
        /\ UNCHANGED <<dbUp, now, projects, messages>>

\* insertMessage(conversationId, role, content) with no options.
ChatBETOInsertMessage(conversationId, role, content) ==
    LET messageId == Uuid(Len(req) + 1)
        cleanContent == Trim(content)
        thrown == IF conversationId = ""
                  THEN "conversationId es requerido y debe ser un string"
                  ELSE IF role \notin {"user", "assistant", "system", "tool"}
                  THEN "role debe ser uno de: user, assistant, system, tool"
                  ELSE IF content = <<>>
                  THEN "content es requerido y debe ser un string no vacío"
                  ELSE IF Len(cleanContent) = 0
                  THEN "El contenido del mensaje no puede estar vacío"
                  ELSE IF ~dbUp THEN "Error al insertar mensaje"
                  ELSE ""
    IN  /\ messages' =
              IF thrown # "" THEN messages
              ELSE Append(messages,
                       [id |-> messageId,
                        conversation_id |-> conversationId,
                        role |-> role,
                        content |-> cleanContent,
                        created_at_timestamp_ms |-> now * 1000])
        /\ req' = Append(req, ReportCall("insertMessage",
                     [conversationId |-> conversationId, role |-> role,
                      content |-> content],
                     thrown,
                     IF thrown # "" THEN NullValue
                     ELSE [success |-> TRUE, messageId |-> messageId,
                           conversationId |-> conversationId]))
        /\ UNCHANGED <<dbUp, now, projects, conversations>>

\* TRIM() of the database takes spaces only from both ends.
RECURSIVE SqlTrim(_)
SqlTrim(s) ==
    IF s = <<>> THEN s
    ELSE IF Head(s) = " " THEN SqlTrim(Tail(s))
    ELSE IF s[Len(s)] = " " THEN SqlTrim(SubSeq(s, 1, Len(s) - 1))
    ELSE s

\* The text a content of an object without toString is stored as.
ObjectObject == "[object Object]"

\* The WHERE of the report on a message row, with the optional role filter.
ReportWhere(m, messageRole) ==
    /\ m.content # <<>>
    /\ \A n \in DOMAIN m.content : m.content[n] # ObjectObject
    /\ Len(SqlTrim(m.content)) > 3
    /\ m.role \in {"user", "assistant", "system"}
    /\ messageRole \in {"user", "assistant", "system"} => m.role = messageRole

\* The pairs <<message row, conversation row>> of
\* messages m INNER JOIN conversations c ON m.conversation_id = c.id,
\* with the optional project filter.
ReportJoin(projectId, messageRole) ==
    {pair \in (DOMAIN messages) \X (DOMAIN conversations) :
        /\ messages[pair[1]].conversation_id = conversations[pair[2]].id
        /\ ReportWhere(messages[pair[1]], messageRole)
        /\ projectId # 0 => conversations[pair[2]].project_id = projectId}

\* LEFT JOIN projects p ON c.project_id = p.id; this module stores no project.
ReportProjectName(c) ==
    IF \E n \in DOMAIN projects : projects[n].id = c.project_id
    THEN (CHOOSE n \in DOMAIN projects : projects[n].id = c.project_id).name
    ELSE "Sin proyecto asignado"

ReportRow(m, c) ==
    [message_id |-> m.id,
     message_role |-> m.role,
     message_content |-> CleanMessageContent(m.content),
     conversation_id |-> c.id,
     conversation_title |-> IF c.title = <<>> THEN <<"Sin título">> ELSE c.title,
     project_name |-> ReportProjectName(c)]

\* LIMIT ? with filters.limit absent.
ReportLimit == 100

\* ORDER BY the message's timestamp, latest first (equal ones in join order).
RECURSIVE ReportOrder(_)
ReportOrder(pairs) ==
    IF pairs = {} THEN <<>>
    ELSE LET first == CHOOSE p \in pairs :
                 \A q \in pairs :
                     \/ messages[p[1]].created_at_timestamp_ms >
                            messages[q[1]].created_at_timestamp_ms
                     \/ /\ messages[p[1]].created_at_timestamp_ms =
                               messages[q[1]].created_at_timestamp_ms
                        /\ \/ p[1] < q[1]
                           \/ p[1] = q[1] /\ p[2] <= q[2]
         IN  <<first>> \o ReportOrder(pairs \ {first})

\* getMessagesForReport(projectId, filters), filters carrying at most
\* messageRole; projectId 0 stands for none.
GetMessagesForReport(projectId, messageRole) ==
    LET ordered == ReportOrder(ReportJoin(projectId, messageRole))
        limited == SubSeq(ordered, 1, IF Len(ordered) < ReportLimit
                                      THEN Len(ordered) ELSE ReportLimit)
        results == [n \in DOMAIN limited |->
                       ReportRow(messages[limited[n][1]],
                                 conversations[limited[n][2]])]
    IN  /\ req' = Append(req, ReportCall("getMessagesForReport",
                     [projectId |-> projectId, messageRole |-> messageRole],
                     IF dbUp THEN "" ELSE "Error al obtener mensajes para reporte",
                     IF dbUp THEN [success |-> TRUE, messages |-> results,
                                   total |-> Len(results)]
                     ELSE NullValue))
        /\ UNCHANGED <<dbUp, now, projects, conversations, messages>>

\* The project the tests insert under.
TestProjectId == 999

\* A conversation as the tests insert it (no id), one inserted under its own
\* id, one with a blank title.
ReportConversations ==
    {[conversation_id |-> "c1", title |-> <<"T">>, project_id |-> TestProjectId],
     [id |-> "c2", conversation_id |-> "c2", title |-> <<" ", "U">>,
      project_id |-> TestProjectId],
     [conversation_id |-> "c3", title |-> <<" ">>, project_id |-> TestProjectId]}

\* Messages for the conversation ids insertConversation returns, of every
\* kind of role and content the validations and the report tell apart.
ReportMessages ==
    {<<"c1", "user", <<"a", "a", "a", "a">> >>,
     <<"c2", "user", <<"a", "a", "a", "a">> >>,
     <<"c2", "assistant", <<" ", "a", "a", "a", "a">> >>,
     <<"c2", "tool", <<"a", "a", "a", "a">> >>,
     <<"c2", "user", <<"a", "a">> >>,
     <<"c2", "user", <<"a", LF, "a", "a", "a">> >>,
     <<"c2", "admin", <<"a", "a", "a", "a">> >>,
     <<"c2", "user", <<>> >>,
     <<"c2", "user", <<" ">> >>,
     <<"", "user", <<"a", "a", "a", "a">> >>}

\* The number of calls of the service in a behaviour.
MaxCalls == 3

InsertConversationCall ==
    /\ Len(req) < MaxCalls
    /\ \E data \in ReportConversations : ChatBETOInsertConversation(data)

InsertMessageCall ==
    /\ Len(req) < MaxCalls
    /\ \E m \in ReportMessages : ChatBETOInsertMessage(m[1], m[2], m[3])

GetMessagesForReportCall ==
    /\ Len(req) < MaxCalls
    /\ \E projectId \in {0, TestProjectId}, messageRole \in {"", "user"} :
         GetMessagesForReport(projectId, messageRole)

NextReport ==
    \/ InsertConversationCall
    \/ InsertMessageCall
    \/ GetMessagesForReportCall

SpecReport == Init /\ [][NextReport]_vars

\* ------------------------------------------------ DatabaseService.transaction
\* transaction(callback), one await per step.  Each await (getConnection,
\* beginTransaction, the callback, commit, rollback) resolves or rejects as the
\* driver and the callback decide; an error is named after the call that
\* raised it.  A request of kind "tx" is one call of transaction:
\*   acquired    getConnection resolved
\*   released    how often connection.release() ran
\*   committed   commit resolved; rolledBack: rollback resolved
\*   attempted   the awaits issued, in order
\*   error       the error the catch block caught ("" when none)
\*   thrown      the error the call rejected with ("" when it resolved)
NewTransaction(at) ==
    [kind |-> "tx", at |-> at, pc |-> "getConnection", acquired |-> FALSE,
     released |-> 0, committed |-> FALSE, rolledBack |-> FALSE,
     attempted |-> <<>>, error |-> "", thrown |-> ""]

TransactionCall ==
    /\ Len(req) < NumRequests
    /\ req' = Append(req, NewTransaction(now))
    /\ UNCHANGED <<dbUp, now, projects, conversations, messages>>

\* The await named by pc is issued.
Awaited(r) == [r EXCEPT !.attempted = Append(@, r.pc)]

\* const connection = await this.pool.getConnection(): outside the try, so a
\* rejection leaves the call at once.
GetConnectionStep(i) ==
    /\ req[i].kind = "tx" /\ req[i].pc = "getConnection"
    /\ \E ok \in BOOLEAN :
         req' = [req EXCEPT ![i] =
            IF ok THEN [Awaited(req[i]) EXCEPT !.acquired = TRUE, !.pc = "beginTransaction"]
            ELSE [Awaited(req[i]) EXCEPT !.thrown = "getConnection", !.pc = "done"]]
    /\ UNCHANGED <<dbUp, now, projects, conversations, messages>>

\* An await of the try block rejects: the catch block takes the error.
Caught(r) == [Awaited(r) EXCEPT !.error = r.pc, !.pc = "rollback"]

\* await connection.beginTransaction()
BeginTransactionStep(i) ==
    /\ req[i].kind = "tx" /\ req[i].pc = "beginTransaction"
    /\ \E ok \in BOOLEAN :
         req' = [req EXCEPT ![i] =
            IF ok THEN [Awaited(req[i]) EXCEPT !.pc = "callback"] ELSE Caught(req[i])]
    /\ UNCHANGED <<dbUp, now, projects, conversations, messages>>

\* const result = await callback(connection)
CallbackStep(i) ==
    /\ req[i].kind = "tx" /\ req[i].pc = "callback"
    /\ \E ok \in BOOLEAN :
         req' = [req EXCEPT ![i] =
            IF ok THEN [Awaited(req[i]) EXCEPT !.pc = "commit"] ELSE Caught(req[i])]
    /\ UNCHANGED <<dbUp, now, projects, conversations, messages>>

\* await connection.commit(); return result  (the finally block runs next)
CommitStep(i) ==
    /\ req[i].kind = "tx" /\ req[i].pc = "commit"
    /\ \E ok \in BOOLEAN :
         req' = [req EXCEPT ![i] =
            IF ok THEN [Awaited(req[i]) EXCEPT !.committed = TRUE, !.pc = "release"]
            ELSE Caught(req[i])]
    /\ UNCHANGED <<dbUp, now, projects, conversations, messages>>

\* catch (error) { await connection.rollback(); logger.error(...); throw error }
\* When rollback rejects, its error leaves the catch block in place of the
\* one caught.
RollbackStep(i) ==
    /\ req[i].kind = "tx" /\ req[i].pc = "rollback"
    /\ \E ok \in BOOLEAN :
         req' = [req EXCEPT ![i] =
            IF ok THEN [Awaited(req[i]) EXCEPT !.rolledBack = TRUE,
                                               !.thrown = req[i].error,
                                               !.pc = "release"]
            ELSE [Awaited(req[i]) EXCEPT !.thrown = "rollback", !.pc = "release"]]
    /\ UNCHANGED <<dbUp, now, projects, conversations, messages>>

\* finally { connection.release() }, then the call resolves or rejects.
ReleaseStep(i) ==
    /\ req[i].kind = "tx" /\ req[i].pc = "release"
    /\ req' = [req EXCEPT ![i] = [req[i] EXCEPT !.released = @ + 1, !.pc = "done"]]
    /\ UNCHANGED <<dbUp, now, projects, conversations, messages>>

NextTransaction ==
    \/ TransactionCall
    \/ \E i \in DOMAIN req : GetConnectionStep(i)
    \/ \E i \in DOMAIN req : BeginTransactionStep(i)
    \/ \E i \in DOMAIN req : CallbackStep(i)
    \/ \E i \in DOMAIN req : CommitStep(i)
    \/ \E i \in DOMAIN req : RollbackStep(i)
    \/ \E i \in DOMAIN req : ReleaseStep(i)

SpecTransaction == Init /\ [][NextTransaction]_vars

\* ------------------------------------------ OpenAIController / OpenAIService
\* The handlers of POST /conversations and POST /conversations/:threadId/messages,
\* called with a request that passed validateApiKey.  Every await is a step;
\* an outbound call to OpenAI succeeds or fails as OpenAI decides.  The service
\* is taken as initialized: when it is not, every method throws before its
\* outbound call, which the handlers treat as that call failing.  A request
\* records the status of its remote run (run) and the messages that were
\* added to the remote thread on its behalf (remote), each with its role and
\* with what added it: a call of messages.create or the run.

\* thread.id, as threads.create gives it to request i.
ThreadId(i) == "thread_" \o ToString(i)

\* message.id, as messages.create gives it to request i for the message of
\* the given phase (initial, user, assistant).
MessageId(i, phase) == "msg_" \o ToString(i) \o "_" \o phase

\* The text of the assistant's reply.
AssistantText == "ok"

NewOpenAIRequest(op, params, body, at) ==
    [kind   |-> "openai",
     op     |-> op,
     params |-> params,
     body   |-> body,
     at     |-> at,
     pc     |-> "handler",
     res    |-> NoResponse,
     thread |-> IF "threadId" \in DOMAIN params THEN params.threadId ELSE "",
     phase  |-> "",
     wrote  |-> <<>>,
     run    |-> "",
     remote |-> <<>>,
     failed |-> "",
     threw  |-> FALSE]

OpenAICall(inputs) ==
    /\ Len(req) < NumRequests
    /\ \E in \in inputs :
          req' = Append(req, NewOpenAIRequest(in.op, in.params, in.body, now))
    /\ UNCHANGED <<dbUp, now, projects, conversations, messages>>

\* A property of the body that is present and truthy: projectId is a
\* number, the others are strings.
Given(body, f) ==
    f \in DOMAIN body /\ body[f] # (IF f = "projectId" THEN 0 ELSE "")

\* const { message, role = 'user' } = req.body
RoleOf(body) == IF "role" \in DOMAIN body THEN body.role ELSE "user"

BadRequest(r, error) ==
    [r EXCEPT !.pc = "responded", !.res = Response(400, [error |-> error])]

\* The outer catch of createConversation / sendMessage.
OpenAIServerError(r, step, message) ==
    [r EXCEPT !.pc = "responded", !.threw = TRUE, !.failed = step,
              !.res = Response(500,
                  [error |-> IF r.op = "createConversation"
                             THEN "Failed to create conversation"
                             ELSE "Failed to send message",
                   message |-> message])]

\* res.status(201).json({status: 'success', data: {...}}) of createConversation.
ConversationCreated(r) ==
    [r EXCEPT !.pc = "responded",
              !.res = Response(201, [status |-> "success",
                                     data |-> [conversationId |-> r.thread,
                                               threadId |-> r.thread,
                                               projectId |-> r.body.projectId]])]

\* res.status(200).json({status: 'success', data: {userMessage,
\* assistantResponse}}) of sendMessage; assistantResponse is the text or null.
MessageSent(r, assistantResponse) ==
    [r EXCEPT !.pc = "responded",
              !.res = Response(200,
                  [status |-> "success",
                   data |-> [userMessage |-> [content |-> r.body.message,
                                              role |-> RoleOf(r.body)],
                             assistantResponse |->
                                 IF assistantResponse = NullValue THEN NullValue
                                 ELSE [content |-> assistantResponse.v,
                                       role |-> "assistant"]]])]

\* Mutant of AssistantThrows: the failure reaches the outer catch.
AssistantThrowsToOuterCatch(r, step, message) == OpenAIServerError(r, step, message)

\* getAssistantResponse throws: the inner catch of sendMessage logs a warning,
\* assistantResponse stays null and the handler goes on to answer.
AssistantThrows(r, step, message) ==
    MessageSent([r EXCEPT !.threw = TRUE, !.failed = step], NullValue)

\* addMessage throws to its caller: getAssistantResponse (inner catch of
\* sendMessage), or sendMessage / createConversation (outer catch).
AddMessageThrows(r, step, message) ==
    IF r.phase = "assistant" THEN AssistantThrows(r, step, message)
    ELSE OpenAIServerError(r, step, message)

\* createConversation up to the answer of its SELECT on projects; the id of a
\* project is its position in the table.
CreateConversation(i) ==
    /\ req[i].kind = "openai" /\ req[i].op = "createConversation"
    /\ req[i].pc = "handler"
    /\ LET r == req[i] IN
       req' = [req EXCEPT ![i] =
          IF ~Given(r.body, "projectId") THEN BadRequest(r, "Project ID is required")
          ELSE IF ~dbUp THEN OpenAIServerError(r, "query", StorageError)
          ELSE IF r.body.projectId \notin DOMAIN projects
          THEN [r EXCEPT !.pc = "responded",
                         !.res = Response(404, [error |-> "Project not found"])]
          ELSE [r EXCEPT !.pc = "threads.create"]]
    /\ UNCHANGED <<dbUp, now, projects, conversations, messages>>

\* sendMessage up to its call of addMessage.
SendMessage(i) ==
    /\ req[i].kind = "openai" /\ req[i].op = "sendMessage"
    /\ req[i].pc = "handler"
    /\ LET r == req[i] IN
       req' = [req EXCEPT ![i] =
          IF ~Given(r.body, "message") THEN BadRequest(r, "Message content is required")
          ELSE [r EXCEPT !.phase = "user", !.pc = "messages.create"]]
    /\ UNCHANGED <<dbUp, now, projects, conversations, messages>>

\* OpenAIService.createConversation: await this.client.beta.threads.create()
ThreadsCreateStep(i) ==
    /\ req[i].pc = "threads.create"
    /\ \E ok \in BOOLEAN :
         req' = [req EXCEPT ![i] =
            IF ok THEN [req[i] EXCEPT !.thread = ThreadId(i), !.pc = "saveConversation"]
            ELSE OpenAIServerError(req[i], "threads.create", "Connection error.")]
    /\ UNCHANGED <<dbUp, now, projects, conversations, messages>>

\* The code of the createConversation handler after the service returned.
AfterCreateConversation(r) ==
    IF Given(r.body, "title") THEN [r EXCEPT !.pc = "updateTitle"]
    ELSE ConversationCreated(r)

\* conversationData of OpenAIService.createConversation.
OpenAIConversationRow(r, at) ==
    [conversation_id  |-> r.thread,
     title            |-> "New Conversation",
     model            |-> "gpt-4",
     create_time      |-> ToDate(at),
     update_time      |-> ToDate(at),
     project_id       |-> r.body.projectId,
     openai_thread_id |-> r.thread]

\* await database.insertConversation(conversationData) and the code after it.
SaveConversationStep(i) ==
    /\ req[i].pc = "saveConversation"
    /\ LET r == req[i]
           row == OpenAIConversationRow(r, now)
       IN  IF ~dbUp
           THEN /\ req' = [req EXCEPT ![i] =
                              OpenAIServerError(r, "insertConversation", StorageError)]
                /\ UNCHANGED conversations
           ELSE /\ conversations' = InsertConversation(conversations, row)
                /\ LET w == [r EXCEPT !.wrote =
                                Append(@, [table |-> "conversations",
                                           id |-> row.conversation_id])]
                   IN  req' = [req EXCEPT ![i] =
                          IF Given(r.body, "initialMessage")
                          THEN [w EXCEPT !.phase = "initial", !.pc = "messages.create"]
                          ELSE AfterCreateConversation(w)]
    /\ UNCHANGED <<dbUp, now, projects, messages>>

\* The role and the content addMessage was called with.
AddedRole(r) ==
    CASE r.phase = "assistant" -> "assistant"
      [] r.phase = "initial"   -> "user"
      [] OTHER                 -> RoleOf(r.body)

AddedContent(r) ==
    CASE r.phase = "assistant" -> AssistantText
      [] r.phase = "initial"   -> r.body.initialMessage
      [] OTHER                 -> r.body.message

\* addMessage: await this.client.beta.threads.messages.create(threadId, ...)
MessagesCreateStep(i) ==
    /\ req[i].pc = "messages.create"
    /\ \E ok \in BOOLEAN :
         req' = [req EXCEPT ![i] =
            IF ok THEN [req[i] EXCEPT !.pc = "saveMessage",
                                      !.remote = Append(@, [role |-> AddedRole(req[i]),
                                                            by |-> "messages.create"])]
            ELSE AddMessageThrows(req[i], "messages.create", "Connection error.")]
    /\ UNCHANGED <<dbUp, now, projects, conversations, messages>>

\* messageData of addMessage; parts is JSON.stringify([content]).
OpenAIMessageRow(r, id, at) ==
    [id              |-> id,
     conversation_id |-> r.thread,
     role            |-> AddedRole(r),
     content         |-> AddedContent(r),
     parts           |-> "[\"" \o AddedContent(r) \o "\"]",
     create_time     |-> ToDate(at),
     parent          |-> Null,
     children        |-> Null,
     author_name     |-> IF AddedRole(r) = "user" THEN "User" ELSE "Assistant"]

\* addMessage: await database.insertMessage(messageData), and the code of the
\* callers after addMessage returned.
SaveMessageStep(i) ==
    /\ req[i].pc = "saveMessage"
    /\ LET r == req[i]
           row == OpenAIMessageRow(r, MessageId(i, r.phase), now)
       IN  IF ~dbUp
           THEN /\ req' = [req EXCEPT ![i] =
                              AddMessageThrows(r, "insertMessage", StorageError)]
                /\ UNCHANGED messages
           ELSE /\ messages' = InsertMessage(messages, row)
                /\ LET w == [r EXCEPT !.wrote =
                                Append(@, [table |-> "messages", id |-> row.id])]
                   IN  req' = [req EXCEPT ![i] =
                          CASE r.phase = "initial"   -> AfterCreateConversation(w)
                            [] r.phase = "assistant" -> MessageSent(w, Str(AssistantText))
                            [] OTHER ->
                                 IF RoleOf(r.body) = "user"
                                 THEN [w EXCEPT !.pc = "runs.create"]
                                 ELSE MessageSent(w, NullValue)]
    /\ UNCHANGED <<dbUp, now, projects, conversations>>

\* getAssistantResponse: await this.client.beta.threads.runs.create(...)
RunsCreateStep(i) ==
    /\ req[i].pc = "runs.create"
    /\ \E ok \in BOOLEAN :
         req' = [req EXCEPT ![i] =
            IF ok THEN [req[i] EXCEPT !.run = "queued", !.pc = "runs.retrieve"]
            ELSE AssistantThrows(req[i], "runs.create", "Connection error.")]
    /\ UNCHANGED <<dbUp, now, projects, conversations, messages>>

\* The remote side works on the run, at its own pace or not at all: a queued
\* run starts or ends, a run in progress ends; a run that completes has added
\* the assistant's message to the thread.
RunProgress(i) ==
    /\ req[i].kind = "openai" /\ req[i].run \in {"queued", "in_progress"}
    /\ \E status \in {"in_progress", "completed", "failed"} :
         /\ status # req[i].run
         /\ req' = [req EXCEPT ![i] =
               [req[i] EXCEPT !.run = status,
                              !.remote = IF status = "completed"
                                         THEN Append(@, [role |-> "assistant",
                                                         by |-> "run"])
                                         ELSE @]]
    /\ UNCHANGED <<dbUp, now, projects, conversations, messages>>

\* getAssistantResponse: runStatus = await ...runs.retrieve(threadId, run.id),
\* before the loop and once per turn of
\*   while (runStatus.status === 'queued' || runStatus.status === 'in_progress')
\* which has no counter and no deadline: on such a status the poll is simply
\* repeated.  A completed run leads to addMessage(threadId, 'assistant', text);
\* any other status, or a call that fails (ok is false), throws.
RunsRetrieve(i, ok) ==
    /\ req[i].pc = "runs.retrieve"
    /\ req' = [req EXCEPT ![i] =
          IF ~ok THEN AssistantThrows(req[i], "runs.retrieve", "Connection error.")
          ELSE IF req[i].run \in {"queued", "in_progress"} THEN req[i]
          ELSE IF req[i].run = "completed"
          THEN [req[i] EXCEPT !.phase = "assistant", !.pc = "messages.create"]
          ELSE AssistantThrows(req[i], "runs.retrieve",
                               "Run failed with status: failed")]
    /\ UNCHANGED <<dbUp, now, projects, conversations, messages>>

RunsRetrieveStep(i) == \E ok \in BOOLEAN : RunsRetrieve(i, ok)

\* UPDATE conversations SET title = ? WHERE conversation_id = ?
UpdateTitleStep(i) ==
    /\ req[i].pc = "updateTitle"
    /\ LET r == req[i] IN
       IF ~dbUp
       THEN /\ req' = [req EXCEPT ![i] = OpenAIServerError(r, "query", StorageError)]
            /\ UNCHANGED conversations
       ELSE /\ conversations' =
                 [n \in DOMAIN conversations |->
                    IF conversations[n].conversation_id = r.thread
                    THEN [conversations[n] EXCEPT !.title = r.body.title]
                    ELSE conversations[n]]
            /\ req' = [req EXCEPT ![i] = ConversationCreated(r)]
    /\ UNCHANGED <<dbUp, now, projects, messages>>

\* Calls of the two handlers: conversations for the stored project, for an
\* unknown one and without projectId; messages to the thread of request 1.
OpenAIInputs ==
    {[op |-> "createConversation", params |-> [n \in {} |-> ""], body |-> b]
        : b \in {[projectId |-> 1],
                  [projectId |-> 1, initialMessage |-> "hi"],
                  [projectId |-> 1, initialMessage |-> "hi", title |-> "T"],
                  [projectId |-> 2],
                  [title |-> "T"]}}
    \cup {[op |-> "sendMessage", params |-> [threadId |-> ThreadId(1)], body |-> b]
        : b \in {[message |-> "hi"],
                  [message |-> "hi", role |-> "assistant"],
                  [role |-> "user"]}}

\* The projects table holds the project an earlier webhook created.
InitOpenAI ==
    /\ now = 400
    /\ req = <<>>
    /\ projects = <<ProjectRow(ProjA)>>
    /\ conversations = <<>>
    /\ messages = <<>>
    /\ dbUp = TRUE

NextOpenAI ==
    \/ OpenAICall(OpenAIInputs)
    \/ \E i \in DOMAIN req : CreateConversation(i)
    \/ \E i \in DOMAIN req : SendMessage(i)
    \/ \E i \in DOMAIN req : ThreadsCreateStep(i)
    \/ \E i \in DOMAIN req : SaveConversationStep(i)
    \/ \E i \in DOMAIN req : MessagesCreateStep(i)
    \/ \E i \in DOMAIN req : SaveMessageStep(i)
    \/ \E i \in DOMAIN req : RunsCreateStep(i)
    \/ \E i \in DOMAIN req : RunProgress(i)
    \/ \E i \in DOMAIN req : RunsRetrieveStep(i)
    \/ \E i \in DOMAIN req : UpdateTitleStep(i)

SpecOpenAI == InitOpenAI /\ [][NextOpenAI]_vars

\* The handlers' own steps are taken when they can be (the event loop resumes
\* every settled await); nothing obliges requests to arrive, the remote run
\* to make progress, or a poll of the run to fail: an answered poll is acted
\* upon, and that is all the scheduling gives.
OpenAIFairness ==
    \A i \in 1..NumRequests :
        /\ WF_vars(i \in DOMAIN req /\ CreateConversation(i))
        /\ WF_vars(i \in DOMAIN req /\ SendMessage(i))
        /\ WF_vars(i \in DOMAIN req /\ ThreadsCreateStep(i))
        /\ WF_vars(i \in DOMAIN req /\ SaveConversationStep(i))
        /\ WF_vars(i \in DOMAIN req /\ MessagesCreateStep(i))
        /\ WF_vars(i \in DOMAIN req /\ SaveMessageStep(i))
        /\ WF_vars(i \in DOMAIN req /\ RunsCreateStep(i))
        /\ WF_vars(i \in DOMAIN req /\ RunsRetrieve(i, TRUE))
        /\ WF_vars(i \in DOMAIN req /\ UpdateTitleStep(i))

SpecOpenAILive == SpecOpenAI /\ OpenAIFairness

\* ------------------------------ OpenAIService.syncExistingConversations
\* POST /sync answers 202 at once and leaves syncExistingConversations running
\* in the background.  A request of kind "mirror" is one such run:
\*   pc        the await the run is at ("done" when it returned)
\*   selected  the conversation ids its SELECT returned that are still to do
\*   thread    the remote thread made for the conversation it is working on
\*   pending   the ids of the messages of that conversation still to post
\*   threads   the remote threads the run created, each with its conversation
\*   posted    the messages the run posted, each with its thread
\* As before the service is taken as initialized.
NewMirrorRun(at) ==
    [kind |-> "mirror", at |-> at, pc |-> "selectConversations",
     res |-> Response(202, [status |-> "accepted",
                            message |-> "Sync started in background"]),
     selected |-> <<>>, thread |-> "", pending |-> <<>>,
     threads |-> <<>>, posted |-> <<>>]

\* OpenAIController.syncConversations
SyncConversations ==
    /\ Len(req) < NumRequests
    /\ req' = Append(req, NewMirrorRun(now))
    /\ UNCHANGED <<dbUp, now, projects, conversations, messages>>

\* LIMIT 10 of the SELECT.
SyncLimit == 10

\* The rows of the table without a thread id, in table order, as a sequence
\* of row numbers.
SelectWithoutThread(tbl) ==
    LET F[n \in 0..Len(tbl)] ==
            IF n = 0 THEN <<>>
            ELSE IF tbl[n].openai_thread_id = Null THEN Append(F[n - 1], n)
                 ELSE F[n - 1]
    IN  F[Len(tbl)]

\* thread.id, as threads.create gives it to run i for a conversation.
MirrorThreadId(i, conversationId) == ThreadId(i) \o "_" \o conversationId

\* The run goes on to the next conversation of its list, or returns.
NextConversation(r) ==
    IF r.selected = <<>> THEN [r EXCEPT !.pc = "done"]
    ELSE [r EXCEPT !.pc = "mirror.threads.create"]

\* SELECT * FROM conversations WHERE openai_thread_id IS NULL LIMIT 10
\* A failure is caught by the outer catch, which logs and returns.
SelectConversationsStep(i) ==
    /\ req[i].kind = "mirror" /\ req[i].pc = "selectConversations"
    /\ LET rows == SelectWithoutThread(conversations)
           limited == SubSeq(rows, 1, IF Len(rows) < SyncLimit THEN Len(rows)
                                      ELSE SyncLimit)
       IN  req' = [req EXCEPT ![i] =
              IF ~dbUp THEN [req[i] EXCEPT !.pc = "done"]
              ELSE NextConversation(
                       [req[i] EXCEPT !.selected =
                           [k \in DOMAIN limited |->
                               conversations[limited[k]].conversation_id]])]
    /\ UNCHANGED <<dbUp, now, projects, conversations, messages>>

\* The inner catch (convError): the run logs and takes the next conversation.
ConversationFailed(r) ==
    NextConversation([r EXCEPT !.selected = Tail(@), !.thread = "", !.pending = <<>>])

\* const thread = await this.client.beta.threads.create()
MirrorThreadsCreateStep(i) ==
    /\ req[i].kind = "mirror" /\ req[i].pc = "mirror.threads.create"
    /\ \E ok \in BOOLEAN :
         LET conversationId == Head(req[i].selected)
             thread == MirrorThreadId(i, conversationId)
         IN  req' = [req EXCEPT ![i] =
                IF ok
                THEN [req[i] EXCEPT !.thread = thread,
                                    !.threads = Append(@, [conversation_id |-> conversationId,
                                                           thread |-> thread]),
                                    !.pc = "updateThread"]
                ELSE ConversationFailed(req[i])]
    /\ UNCHANGED <<dbUp, now, projects, conversations, messages>>

\* UPDATE conversations SET openai_thread_id = ? WHERE conversation_id = ?
UpdateThreadStep(i) ==
    /\ req[i].kind = "mirror" /\ req[i].pc = "updateThread"
    /\ IF ~dbUp
       THEN /\ req' = [req EXCEPT ![i] = ConversationFailed(req[i])]
            /\ UNCHANGED conversations
       ELSE /\ conversations' =
                 [n \in DOMAIN conversations |->
                    IF conversations[n].conversation_id = Head(req[i].selected)
                    THEN [conversations[n] EXCEPT !.openai_thread_id = req[i].thread]
                    ELSE conversations[n]]
            /\ req' = [req EXCEPT ![i] = [req[i] EXCEPT !.pc = "selectMessages"]]
    /\ UNCHANGED <<dbUp, now, projects, messages>>

\* ORDER BY create_time ASC on row numbers (rows of equal time in table order).
RECURSIVE OrderByCreateTime(_)
OrderByCreateTime(rows) ==
    IF rows = {} THEN <<>>
    ELSE LET first == CHOOSE n \in rows :
                 \A m \in rows :
                     \/ messages[n].create_time.epochSeconds <
                            messages[m].create_time.epochSeconds
                     \/ /\ messages[n].create_time.epochSeconds =
                               messages[m].create_time.epochSeconds
                        /\ n <= m
         IN  <<first>> \o OrderByCreateTime(rows \ {first})

\* The run goes on to the next message of the conversation, or to the next
\* conversation; messages whose role is neither user nor assistant are
\* passed over.
RECURSIVE NextMessage(_)
NextMessage(r) ==
    IF r.pending = <<>>
    THEN NextConversation([r EXCEPT !.selected = Tail(@), !.thread = ""])
    ELSE IF Head(r.pending).role \in {"user", "assistant"}
    THEN [r EXCEPT !.pc = "mirror.messages.create"]
    ELSE NextMessage([r EXCEPT !.pending = Tail(@)])

\* SELECT * FROM messages WHERE conversation_id = ? ORDER BY create_time ASC
SelectMessagesStep(i) ==
    /\ req[i].kind = "mirror" /\ req[i].pc = "selectMessages"
    /\ LET rows == OrderByCreateTime(
                       {n \in DOMAIN messages :
                           messages[n].conversation_id = Head(req[i].selected)})
       IN  req' = [req EXCEPT ![i] =
              IF ~dbUp THEN ConversationFailed(req[i])
              ELSE NextMessage([req[i] EXCEPT !.pending =
                      [k \in DOMAIN rows |-> [id |-> messages[rows[k]].id,
                                               role |-> messages[rows[k]].role]]])]
    /\ UNCHANGED <<dbUp, now, projects, conversations, messages>>

\* await this.client.beta.threads.messages.create(thread.id, {...}); a failure
\* is caught (msgError), logged, and the loop goes on.
MirrorMessagesCreateStep(i) ==
    /\ req[i].kind = "mirror" /\ req[i].pc = "mirror.messages.create"
    /\ \E ok \in BOOLEAN :
         LET msg == Head(req[i].pending)
             rest == [req[i] EXCEPT !.pending = Tail(@)]
         IN  req' = [req EXCEPT ![i] =
                NextMessage(IF ok
                            THEN [rest EXCEPT !.posted =
                                     Append(@, [id |-> msg.id, thread |-> req[i].thread])]
                            ELSE rest)]
    /\ UNCHANGED <<dbUp, now, projects, conversations, messages>>

\* Deliveries for the stored conversation: one without a thread id, one
\* with the thread id a client knows.
MirrorInputs ==
    {Call(PayloadConv, "conversation.updated"),
     Call([conversation |-> ConvA2], "conversation.updated")}

\* The tables hold a conversation without remote thread and two of its
\* messages, one of them of a role the sync passes over, as earlier
\* deliveries and a manual sync left them.
InitMirror ==
    /\ now = 400
    /\ req = <<>>
    /\ projects = <<>>
    /\ conversations = <<ConversationCreatedRow(PayloadConv)>>
    /\ messages = <<MessageRow(MsgA, ConvA.id), MessageRow(MsgAdmin, ConvA.id)>>
    /\ dbUp = TRUE

NextMirror ==
    \/ SyncConversations
    \/ MethodCall(MirrorInputs)
    \/ \E i \in DOMAIN req : HandleChatGPTWebhook(i)
    \/ \E i \in DOMAIN req : InsertConversationStep(i)
    \/ \E i \in DOMAIN req : SelectConversationsStep(i)
    \/ \E i \in DOMAIN req : MirrorThreadsCreateStep(i)
    \/ \E i \in DOMAIN req : UpdateThreadStep(i)
    \/ \E i \in DOMAIN req : SelectMessagesStep(i)
    \/ \E i \in DOMAIN req : MirrorMessagesCreateStep(i)

SpecMirror == InitMirror /\ [][NextMirror]_vars

\* ------------------------------------------------- the application's routing
\* A path is the sequence of its segments; a segment of a route that starts
\* with ':' in the source matches any one segment.
PathParams == {":conversationId", ":threadId"}

\* The routes of the webhook router (routes/webhook.js).  POST /test/webhook
\* is registered in development only and is left out.
WebhookRoutes ==
    {[method |-> "GET",  path |-> <<"health">>],
     [method |-> "GET",  path |-> <<>>],
     [method |-> "POST", path |-> <<"webhook", "chatgpt">>],
     [method |-> "POST", path |-> <<"sync", "manual">>]}

\* The routes of the OpenAI router (routes/openai.js).
OpenAIRoutes ==
    {[method |-> "GET",  path |-> <<"status">>],
     [method |-> "POST", path |-> <<"conversations">>],
     [method |-> "GET",  path |-> <<"conversations", ":conversationId">>],
     [method |-> "POST", path |-> <<"conversations", ":threadId", "messages">>],
     [method |-> "POST", path |-> <<"chat", "completions">>],
     [method |-> "POST", path |-> <<"sync">>]}

ApiMount == <<"api", "v1">>
OpenAIMount == <<"api", "v1", "openai">>

\* The path lies under the mount point.
Under(mount, path) ==
    Len(path) >= Len(mount) /\ SubSeq(path, 1, Len(mount)) = mount

\* The path as the router mounted there sees it.
Below(mount, path) == SubSeq(path, Len(mount) + 1, Len(path))

\* A route of the router answers the method and the path.
RouteMatches(routes, method, path) ==
    \E route \in routes :
        /\ route.method = method
        /\ Len(route.path) = Len(path)
        /\ \A k \in DOMAIN path :
              route.path[k] \in PathParams \/ route.path[k] = path[k]

\* Some router mounted by setupRoutes has a route for the method and path.
Registered(method, path) ==
    \/ Under(ApiMount, path) /\ RouteMatches(WebhookRoutes, method, Below(ApiMount, path))
    \/ Under(OpenAIMount, path) /\ RouteMatches(OpenAIRoutes, method, Below(OpenAIMount, path))
    \/ RouteMatches(WebhookRoutes, method, path)

ContentTypeHeader == "content-type"

\* validateRequest: a POST, PUT or PATCH must declare application/json.
\* (The 10 MB limit on content-length is not modelled: the samples are small.)
ValidateRequest(method, headers) ==
    IF /\ method \in {"POST", "PUT", "PATCH"}
       /\ \/ ContentTypeHeader \notin DOMAIN headers
          \/ headers[ContentTypeHeader] # "application/json"
    THEN Reject(400, "Content-Type must be application/json")
    ELSE CallNext

\* The 404 handler of setupRoutes.
RouteNotFound(method, path) ==
    Response(404, [error |-> "Route not found", method |-> method, path |-> path])

\* The answer the application gives before any route handler runs, or
\* NoResponse when the request reaches a route.  In the order of
\* setupMiddleware and setupRoutes: corsMiddleware ends OPTIONS with 200,
\* validateRequest, the webhook router under /api/v1, the OpenAI router under
\* /api/v1/openai behind router.use(validateApiKey), the webhook router under
\* /, the 404 handler.  (The rate limiters are not modelled: the requests are
\* fewer than any limit.)
AppAnswer(method, path, headers) ==
    IF method = "OPTIONS" THEN [status |-> 200]
    ELSE IF ~ValidateRequest(method, headers).next
    THEN Response(400, [error |-> ValidateRequest(method, headers).error])
    ELSE IF Under(ApiMount, path)
            /\ RouteMatches(WebhookRoutes, method, Below(ApiMount, path))
    THEN NoResponse
    ELSE IF Under(OpenAIMount, path) /\ ~ValidateApiKey(headers).next
    THEN Response(401, [error |-> ValidateApiKey(headers).error])
    ELSE IF Under(OpenAIMount, path)
            /\ RouteMatches(OpenAIRoutes, method, Below(OpenAIMount, path))
    THEN NoResponse
    ELSE IF RouteMatches(WebhookRoutes, method, path)
    THEN NoResponse
    ELSE RouteNotFound(method, path)

\* A request arrives at the application; it is answered by the middleware or
\* the 404 handler, or handed to the route it matches.
AppRequest(inputs) ==
    /\ Len(req) < NumRequests
    /\ \E input \in inputs :
         LET res == AppAnswer(input.method, input.path, input.headers) IN
         req' = Append(req, [kind |-> "app", method |-> input.method,
                             path |-> input.path, headers |-> input.headers,
                             at |-> now, res |-> res,
                             pc |-> IF res = NoResponse THEN "route"
                                    ELSE "responded"])
    /\ UNCHANGED <<dbUp, now, projects, conversations, messages>>

\* Requests to registered and unregistered paths at the root and under both
\* mounts, with and without the API key and the JSON content type.
AppPaths ==
    {<<"nonexistent">>, <<"health">>, <<"api", "v1", "nonexistent">>,
     <<"api", "v1", "health">>, <<"api", "v1", "openai", "nonexistent">>,
     <<"api", "v1", "openai", "status">>,
     <<"api", "v1", "openai", "conversations", "t1", "messages">>}

AppHeaders ==
    {[h \in {} |-> <<>>],
     (ApiKeyHeader :> ConfiguredApiKey),
     (ApiKeyHeader :> OtherKey),
     (ContentTypeHeader :> "application/json"),
     (ContentTypeHeader :> "application/json") @@ (ApiKeyHeader :> ConfiguredApiKey)}

AppInputs ==
    {[method |-> m, path |-> p, headers |-> h]
        : m \in {"GET", "POST", "OPTIONS"}, p \in AppPaths, h \in AppHeaders}

NextRouter == AppRequest(AppInputs)

SpecRouter == Init /\ [][NextRouter]_vars

\* ------------------------------------------------------------------ claims
Responded(r) == r.pc = "responded"

\* The handler ran for the request (it was not answered by the middleware).
Handled(r) == Responded(r) /\ (r.entry = "route" => r.auth.next)

EventOf(r) == EventTypeOf(r.headers)

IsConversationEvent(r) ==
    EventOf(r) \in {"conversation.created", "conversation.updated"}

\* The request upserted a conversation row.
WroteConversation(r) ==
    \E k \in DOMAIN r.ops : r.ops[k] = "insertConversation"

RowsOf(tbl, key, value) == {n \in DOMAIN tbl : tbl[n][key] = value}

\* Requests i and j delivered conversation events for the same id one after
\* the other, both succeeded, and nothing else wrote that conversation.
Redelivered(i, j) ==
    /\ i \in req[j].after
    /\ IsConversationEvent(req[i]) /\ IsConversationEvent(req[j])
    /\ Responded(req[i]) /\ req[i].res.status = 200
    /\ Responded(req[j]) /\ req[j].res.status = 200
    /\ req[i].body.conversation.id = req[j].body.conversation.id
    /\ \A m \in DOMAIN req \ {i, j} :
          WroteConversation(req[m]) =>
              req[m].body.conversation.id # req[j].body.conversation.id

\* C1: after a conversation event has been delivered and then delivered again,
\* the conversation id has exactly one row; its title, model, update_time,
\* project link and thread id are those of the second delivery and its
\* create_time is that of the first.
C1_IdempotentRedelivery ==
    \A i, j \in DOMAIN req :
        Redelivered(i, j) =>
            LET first == ConversationRowOf(req[i])
                second == ConversationRowOf(req[j])
                rows == RowsOf(conversations, "conversation_id",
                               req[j].body.conversation.id)
            IN  /\ Cardinality(rows) = 1
                /\ \A n \in rows :
                      /\ conversations[n].title = second.title
                      /\ conversations[n].model = second.model
                      /\ conversations[n].update_time = second.update_time
                      /\ conversations[n].project_id = second.project_id
                      /\ conversations[n].openai_thread_id = second.openai_thread_id
                      /\ conversations[n].create_time = first.create_time

\* C1 witness: the same payload was delivered as conversation.created and then
\* again as conversation.updated, and the table holds one row.
C1_Witness ==
    /\ Len(req) >= 2
    /\ Redelivered(1, 2)
    /\ req[1].body = PayloadConv2
    /\ req[2].body = req[1].body
    /\ EventOf(req[1]) = "conversation.created"
    /\ EventOf(req[2]) = "conversation.updated"
    /\ Len(conversations) = 1

UniqueKey(tbl, key) ==
    \A m, n \in DOMAIN tbl : tbl[m][key] = tbl[n][key] => m = n

ResultStatus(eventType) ==
    CASE eventType = "conversation.created" -> "conversation_created"
      [] eventType = "conversation.updated" -> "conversation_updated"
      [] eventType = "message.created" -> "message_created"
      [] eventType = "message.updated" -> "message_updated"

\* C7: a routed, signature-accepted, schema-valid webhook of a known event type
\* is answered 200 'success' with the matching result.status, and its row is
\* in the store.
C7_KnownEventSucceeds ==
    \A i \in DOMAIN req :
        LET r == req[i] IN
        ( /\ r.entry = "route" /\ Handled(r)
          /\ ValidateWebhookPayload(r.body).isValid
          /\ EventOf(r) \in KnownEventTypes
          /\ "conversation" \in DOMAIN r.body /\ "message" \in DOMAIN r.body )
        => /\ r.res.status = 200
           /\ r.res.body.status = "success"
           /\ r.res.body.eventType = EventOf(r)
           /\ r.res.body.result.status = ResultStatus(EventOf(r))
           /\ IF IsConversationEvent(r)
              THEN RowsOf(conversations, "conversation_id", r.body.conversation.id) # {}
              ELSE RowsOf(messages, "id", r.body.message.id) # {}

\* No other request wrote the conversation embedded in request i.
OnlyWriterOfConversation(i) ==
    \A m \in DOMAIN req \ {i} :
        WroteConversation(req[m]) =>
            req[m].body.conversation.id # req[i].body.conversation.id

\* C8: once a message.created event whose embedded conversation nobody else
\* wrote has been handled, the conversation has a row, the message has a row
\* whose conversation_id is that conversation's id, and the conversation was
\* written before the message.
C8_MessageBeforeConversation ==
    \A i \in DOMAIN req :
        LET r == req[i] IN
        ( /\ Handled(r)
          /\ EventOf(r) = "message.created"
          /\ ValidateWebhookPayload(r.body).isValid
          /\ "conversation" \in DOMAIN r.body
          /\ OnlyWriterOfConversation(i) )
        => /\ RowsOf(conversations, "conversation_id", r.body.conversation.id) # {}
           /\ \E n \in RowsOf(messages, "id", r.body.message.id) :
                 messages[n].conversation_id = r.body.conversation.id
           /\ r.ops = <<"getConversation", "insertConversation", "insertMessage">>

\* C9: a validated request whose event type is none of the four known tags is
\* answered 200 with result.status 'ignored' and issues no store call.
C9_UnknownEventIgnored ==
    \A i \in DOMAIN req :
        LET r == req[i] IN
        ( /\ Handled(r)
          /\ ValidateWebhookPayload(r.body).isValid
          /\ EventOf(r) \notin KnownEventTypes )
        => /\ r.res.status = 200
           /\ r.res.body.status = "success"
           /\ r.res.body.result.status = "ignored"
           /\ r.ops = <<>>

\* C9 witness: a routed envelope carrying event_type 'something.else' was
\* answered as ignored while the store is empty.
C9_Witness ==
    \E i \in DOMAIN req :
        /\ req[i].entry = "route" /\ Handled(req[i])
        /\ req[i].body = PayloadElse
        /\ req[i].res.status = 200
        /\ req[i].res.body.result.status = "ignored"
        /\ conversations = <<>> /\ messages = <<>> /\ projects = <<>>

\* One of the two headers of the signature scheme is absent.
LacksCredential(r) ==
    SigHeader \notin DOMAIN r.headers \/ TsHeader \notin DOMAIN r.headers

\* C11: a routed webhook lacking the signature header or the timestamp header
\* is answered 401 'Missing signature or timestamp' by the middleware; next()
\* is not called, the handler never runs for it and it issues no store call,
\* whatever its body.
C11_MissingCredential ==
    \A i \in DOMAIN req :
        LET r == req[i] IN
        (r.kind = "webhook" /\ r.entry = "route" /\ LacksCredential(r)) =>
            /\ r.res = Response(401, [error |-> "Missing signature or timestamp"])
            /\ ~r.auth.next
            /\ r.pc = "responded"
            /\ r.ops = <<>>

\* C11 witness: a message.created webhook carrying a signature but no
\* timestamp was answered 401 and the store is empty.
C11_Witness ==
    \E i \in DOMAIN req :
        /\ req[i].entry = "route"
        /\ SigHeader \in DOMAIN req[i].headers
        /\ TsHeader \notin DOMAIN req[i].headers
        /\ req[i].body = PayloadMsg
        /\ req[i].res.status = 401
        /\ messages = <<>> /\ conversations = <<>>

\* The envelope has a conversation without id and no message, or neither a
\* conversation nor a message.
BreaksEnvelope(payload) ==
    /\ "message" \notin DOMAIN payload
    /\ "conversation" \in DOMAIN payload => "id" \notin DOMAIN payload.conversation

\* C10: such an envelope is answered 400 'Invalid payload' without any store
\* call; when the conversation lacks its id, details names conversation.id.
C10_ValidationShortCircuit ==
    \A i \in DOMAIN req :
        LET r == req[i] IN
        (Handled(r) /\ BreaksEnvelope(r.body)) =>
            /\ r.res.status = 400
            /\ r.res.body.error = "Invalid payload"
            /\ r.res.body.details # <<>>
            /\ "conversation" \in DOMAIN r.body =>
                  \E k \in DOMAIN r.res.body.details :
                      r.res.body.details[k].field = "conversation.id"
            /\ r.ops = <<>>

\* C10 witness: a routed conversation.created webhook whose conversation has
\* no id was answered 400.
C10_Witness ==
    \E i \in DOMAIN req :
        /\ req[i].entry = "route" /\ Handled(req[i])
        /\ req[i].body = PayloadNoId
        /\ req[i].res.status = 400

\* s without its leading pat, s itself when it does not start with pat.
WithoutPrefix(s, pat) ==
    IF Len(s) >= Len(pat) /\ SubSeq(s, 1, Len(pat)) = pat
    THEN SubSeq(s, Len(pat) + 1, Len(s)) ELSE s

\* The credential of a request: the key header when it has a value, else the
\* Authorization header.
CredentialOf(r) ==
    IF HeaderOrEmpty(r.headers, ApiKeyHeader) # <<>>
    THEN r.headers[ApiKeyHeader]
    ELSE HeaderOrEmpty(r.headers, AuthorizationHeader)

\* C12: a manual sync without credential is answered 401 'Missing API key';
\* with one, next() is called exactly when the credential without its
\* 'Bearer ' / 'ApiKey ' prefix equals the configured key, and it is answered
\* 401 'Invalid API key' otherwise; a rejected request never reaches the
\* handler and issues no store call.
C12_AccessGuard ==
    \A i \in DOMAIN req :
        LET r == req[i] IN
        (r.kind = "sync" /\ r.entry = "route") =>
            /\ CredentialOf(r) = <<>> =>
                  r.res = Response(401, [error |-> "Missing API key"])
            /\ CredentialOf(r) # <<>> =>
                  /\ r.auth.next <=>
                        WithoutPrefix(WithoutPrefix(CredentialOf(r), BearerPrefix),
                                      ApiKeyPrefix) = ConfiguredApiKey
                  /\ ~r.auth.next =>
                        r.res = Response(401, [error |-> "Invalid API key"])
            /\ ~r.auth.next => r.pc = "responded" /\ r.ops = <<>>

\* C13: a message row keeps the create_time of its first insert: no step
\* changes the create_time of a message id that is already stored.
C13_MessageCreateTimeImmutable ==
    [][\A m \in DOMAIN messages :
          \A n \in DOMAIN messages' :
              messages'[n].id = messages[m].id =>
                  messages'[n].create_time = messages[m].create_time]_vars

\* No other request issued a write of the project named in request i.
OnlyWriterOfProject(i) ==
    \A m \in DOMAIN req \ {i} :
        (\E k \in DOMAIN req[m].ops : req[m].ops[k] = "createProject") =>
            req[m].body.project.name # req[i].body.project.name

\* C14: a webhook that ended in failure left nothing behind: the conversation
\* and the project it names have no row unless another request wrote them.
C14_NoPartialCommit ==
    \A i \in DOMAIN req :
        LET r == req[i] IN
        (r.kind = "webhook" /\ Responded(r) /\ r.res.status >= 500) =>
            /\ ("conversation" \in DOMAIN r.body /\ OnlyWriterOfConversation(i)) =>
                  RowsOf(conversations, "conversation_id", r.body.conversation.id) = {}
            /\ ("project" \in DOMAIN r.body /\ OnlyWriterOfProject(i)) =>
                  RowsOf(projects, "name", r.body.project.name) = {}

\* C15: a request one of whose store calls threw is answered 5xx, never 200,
\* there and then, and no request issues the same store call twice.
C15_StorageFailure ==
    \A i \in DOMAIN req :
        LET r == req[i] IN
        /\ r.threw => r.pc = "responded" /\ r.res.status >= 500
        /\ \A k, l \in DOMAIN r.ops : r.ops[k] = r.ops[l] => k = l

\* C15 witness: a message.created event read and wrote the conversation, the
\* server went away, insertMessage threw and the request was answered 500.
C15_Witness ==
    \E i \in DOMAIN req :
        /\ req[i].threw
        /\ req[i].ops = <<"getConversation", "insertConversation", "insertMessage">>
        /\ req[i].res.status = 500
        /\ ~dbUp

\* C18: GET /health is answered 200 when the server is reachable at the time
\* of the check and 503 when it is not, and answering it changes no table.
C18_HealthStatusCode ==
    [][\A i \in DOMAIN req :
          (req[i].pc = "healthCheck" /\ req'[i].pc = "responded") =>
              /\ req'[i].res.status = IF dbUp THEN 200 ELSE 503
              /\ UNCHANGED <<projects, conversations, messages>>]_vars

\* C18 witness: one health request was answered 200 and a later one, checked
\* during an outage, 503.
C18_Witness ==
    \E i, j \in DOMAIN req :
        /\ i < j
        /\ req[i].kind = "health" /\ req[i].res.status = 200
        /\ req[j].kind = "health" /\ req[j].res.status = 503
        /\ ~dbUp

\* C19: a health answer with status code 503 does not carry the top-level
\* status 'healthy'.
C19_HealthBodyStatus ==
    \A i \in DOMAIN req :
        (req[i].kind = "health" /\ Responded(req[i]) /\ req[i].res.status = 503) =>
            req[i].res.body.status # "healthy"

\* The request is past the switch of the handler: a routine runs or ran.
Routed(r) ==
    \/ r.pc \in {"getProject", "createProject", "insertConversation",
                 "getConversation", "insertMessage"}
    \/ r.ops # <<>>

\* C16: a webhook the middleware rejected carries the middleware's answer and
\* was never validated or routed; a webhook whose payload is invalid carries
\* the 400 of the validation and was never routed; and a webhook for which a
\* routine runs or a store call was issued was accepted by the middleware
\* (when it came through the route) and has a valid payload.
C16_StepOrder ==
    \A i \in DOMAIN req :
        LET r == req[i] IN
        r.kind = "webhook" =>
            /\ (r.entry = "route" /\ ~r.auth.next) =>
                  /\ r.res = Response(r.auth.status, [error |-> r.auth.error])
                  /\ ~Routed(r)
            /\ (Handled(r) /\ ~ValidateWebhookPayload(r.body).isValid) =>
                  r.res.status = 400 /\ ~Routed(r)
            /\ Routed(r) =>
                  /\ r.entry = "route" => r.auth.next
                  /\ ValidateWebhookPayload(r.body).isValid

\* C16 witness: a routed webhook with a wrong signature and an invalid payload
\* was answered 401, not 400, and another event with a valid payload got as
\* far as its store calls.
C16_Witness ==
    \E i, j \in DOMAIN req :
        /\ req[i].entry = "route" /\ ~req[i].auth.next
        /\ ~ValidateWebhookPayload(req[i].body).isValid
        /\ req[i].res = Response(401, [error |-> "Invalid signature"])
        /\ req[j].ops # <<>>
        /\ ValidateWebhookPayload(req[j].body).isValid

\* C17: an answered webhook carries one answer, 200, 4xx or 5xx; a 4xx answer
\* was given before any routine was selected, and a 5xx answer only after a
\* store call of the request threw.
C17_TerminalStates ==
    \A i \in DOMAIN req :
        LET r == req[i] IN
        (r.kind = "webhook" /\ Responded(r)) =>
            /\ r.res.status = 200 \/ r.res.status \in 400..599
            /\ r.res.status \in 400..499 => ~Routed(r)
            /\ r.res.status \in 500..599 => Routed(r) /\ r.threw

\* The body of a manual sync passes the validation the claim speaks of: a
\* type of the two, and data holding a valid conversation or message.
SyncBodyValid(body) ==
    /\ Field(body, "type") \in {"conversation", "message"}
    /\ "data" \in DOMAIN body
    /\ body.type = "conversation" =>
          /\ "conversation" \in DOMAIN body.data
          /\ ValidateConversationObj(body.data.conversation) = <<>>
    /\ body.type = "message" =>
          /\ "message" \in DOMAIN body.data
          /\ ValidateMessageObj(body.data.message) = <<>>

\* C20: a manual sync that reached the handler with a body failing validation
\* is answered 400 and issued no store write.
C20_ManualSyncValidates ==
    \A i \in DOMAIN req :
        LET r == req[i] IN
        (r.kind = "sync" /\ Handled(r) /\ ~SyncBodyValid(r.body)) =>
            /\ r.res.status = 400
            /\ \A k \in DOMAIN r.ops :
                  r.ops[k] \notin {"createProject", "insertConversation",
                                   "insertMessage"}

\* The roles of the data model.
ClosedRoles == {"user", "assistant", "system", "tool"}

\* C21: every message row of the store has a role of the closed set.
C21_RoleInvariant ==
    \A n \in DOMAIN messages : messages[n].role \in ClosedRoles

\* C22: every message row has content: it is neither NULL nor empty.
C22_ContentInvariant ==
    \A n \in DOMAIN messages : messages[n].content \notin {Null, "", "\"\""}

\* The request is the only one that wrote the message it carries.
OnlyWriterOfMessage(i) ==
    \A m \in DOMAIN req \ {i} :
        (\E k \in DOMAIN req[m].ops : req[m].ops[k] = "insertMessage") =>
            req[m].body.message.id # req[i].body.message.id

\* C23: a message event with string content T that was answered with success
\* left a row whose content is exactly T.
C23_StringContentStoredAsIs ==
    \A i \in DOMAIN req :
        LET r == req[i] IN
        ( /\ r.kind = "webhook" /\ Responded(r) /\ r.res.status = 200
          /\ EventOf(r) \in {"message.created", "message.updated"}
          /\ "content" \in DOMAIN r.body.message
          /\ r.body.message.content.t = "string"
          /\ OnlyWriterOfMessage(i) )
        => \E n \in RowsOf(messages, "id", r.body.message.id) :
               messages[n].content = r.body.message.content.v

\* C28: the conversation_id of every message row is the conversation_id of a
\* conversation row.
C28_MessageReferencesConversation ==
    \A n \in DOMAIN messages :
        RowsOf(conversations, "conversation_id", messages[n].conversation_id) # {}

\* The sub-objects and the event_type the envelope carries pass their own
\* schemas.
WellFormedParts(payload) ==
    /\ "conversation" \in DOMAIN payload =>
          ValidateConversationObj(payload.conversation) = <<>>
    /\ "message" \in DOMAIN payload => ValidateMessageObj(payload.message) = <<>>
    /\ "project" \in DOMAIN payload => ValidateProjectObj(payload.project) = <<>>
    /\ "event_type" \in DOMAIN payload => payload.event_type # ""

\* C26: an envelope with well-formed parts is valid exactly when it holds a
\* conversation or a message; with neither, the error names the field
\* 'conversation' and the handler answers 400; a valid envelope's data keeps
\* every key of the payload, those the schemas do not name unchanged.
C26_EnvelopeRule ==
    \A i \in DOMAIN req :
        LET payload == req[i].body
            validation == ValidateWebhookPayload(payload)
            hasOne == "conversation" \in DOMAIN payload \/ "message" \in DOMAIN payload
        IN  (req[i].kind = "webhook" /\ WellFormedParts(payload)) =>
                /\ validation.isValid <=> hasOne
                /\ ~hasOne =>
                      /\ validation.errors[1].field = "conversation"
                      /\ Handled(req[i]) => req[i].res.status = 400
                /\ hasOne =>
                      /\ DOMAIN validation.data = DOMAIN payload
                      /\ \A k \in DOMAIN payload \ {"conversation", "project"} :
                            validation.data[k] = payload[k]
                      /\ Handled(req[i]) => req[i].res.status # 400

\* C26 witness: a message without conversation and a conversation with an
\* unknown key were accepted, or a project alone was answered 400.
C26_Witness ==
    \E i, j \in DOMAIN req :
        /\ Handled(req[i]) /\ Handled(req[j])
        /\ DOMAIN req[i].body = {"project", "source"}
        /\ req[i].res.status = 400
        /\ DOMAIN req[j].body \in {{"message"}, {"conversation", "source", "timestamp"}}
        /\ req[j].res.status = 200

\* The instant lies outside the window of validateTimestamp at the time at.
OutOfWindow(timestamp, at) == ValidateTimestamp(timestamp, at) = NullValue

\* C30: a conversation event whose dates lie more than a year from the clock
\* is valid, is answered with success, and its row carries those dates.
C30_TimestampNotRejected ==
    \A i \in DOMAIN req :
        LET r == req[i] IN
        ( /\ r.kind = "webhook" /\ Handled(r) /\ IsConversationEvent(r)
          /\ "conversation" \in DOMAIN r.body
          /\ WellFormedParts(r.body)
          /\ \/ OutOfWindow(r.body.conversation.create_time, r.at)
             \/ OutOfWindow(r.body.conversation.update_time, r.at)
             \/ "timestamp" \in DOMAIN r.body /\ OutOfWindow(r.body.timestamp, r.at)
          /\ OnlyWriterOfConversation(i) )
        => /\ ValidateWebhookPayload(r.body).isValid
           /\ "timestamp" \in DOMAIN r.body =>
                 ValidateWebhookPayload(r.body).data.timestamp = r.body.timestamp
           /\ r.res.status = 200
           /\ \E n \in RowsOf(conversations, "conversation_id", r.body.conversation.id) :
                 /\ conversations[n].create_time = ToDate(r.body.conversation.create_time)
                 /\ conversations[n].update_time = ToDate(r.body.conversation.update_time)

\* C30 witness: a conversation dated more than a year after the clock and one
\* dated more than a year before it are both stored with their dates.
C30_Witness ==
    \E m, n \in DOMAIN conversations :
        /\ conversations[m].create_time.epochSeconds > now + YearSeconds
        /\ conversations[n].create_time.epochSeconds < now - YearSeconds

\* C25: in production mode no 5xx response carries an internal error message
\* or a stack trace, only a generic error. The catch blocks of the webhook and
\* manual-sync handlers do not read the mode, so the model has none.
C25_NoInternalMessage ==
    \A i \in DOMAIN req :
        (Responded(req[i]) /\ req[i].res.status >= 500) =>
            DOMAIN req[i].res.body \cap {"message", "stack"} = {}

\* The step is a call of createProject that returned: the call it logs.
CreateProjectReturned ==
    /\ Len(req') = Len(req) + 1
    /\ req'[Len(req')].kind = "store"
    /\ ~req'[Len(req')].threw

\* C29: createProject on a stored name changes only description and
\* chatgpt_project_id of the row with that name and leaves name, is_starred
\* and every other row as they were; on an absent name it appends exactly one
\* row, with is_starred false unless the argument gives it.
C29_CreateProjectFrame ==
    [][CreateProjectReturned =>
        LET projectData == req'[Len(req')].data IN
        IF GetProject(projects, projectData.name)
        THEN /\ Len(projects') = Len(projects)
             /\ \A n \in DOMAIN projects :
                   /\ projects'[n].name = projects[n].name
                   /\ projects'[n].is_starred = projects[n].is_starred
                   /\ IF projects[n].name = projectData.name
                      THEN /\ projects'[n].description = projectData.description
                           /\ projects'[n].chatgpt_project_id =
                                  projectData.chatgpt_project_id
                      ELSE projects'[n] = projects[n]
        ELSE /\ Len(projects') = Len(projects) + 1
             /\ SubSeq(projects', 1, Len(projects)) = projects
             /\ projects'[Len(projects')] =
                   [name               |-> projectData.name,
                    description        |-> projectData.description,
                    is_starred         |-> IF "is_starred" \in DOMAIN projectData
                                           THEN projectData.is_starred ELSE FALSE,
                    chatgpt_project_id |-> projectData.chatgpt_project_id]
    ]_vars

\* C29 witness: a project created starred was given again with another
\* description and is_starred false, and the one row keeps its flag.
C29_Witness ==
    /\ Len(req) >= 2 /\ Len(projects) = 1
    /\ req[1].kind = "store" /\ req[2].kind = "store"
    /\ req[1].data.name = req[2].data.name
    /\ "is_starred" \in DOMAIN req[1].data /\ req[1].data.is_starred
    /\ "is_starred" \in DOMAIN req[2].data /\ ~req[2].data.is_starred
    /\ "description" \in DOMAIN req[2].data
    /\ req[1].data.description # req[2].data.description
    /\ projects[1].is_starred
    /\ projects[1].description = req[2].data.description

\* C27: a request whose method and path match no registered route is
\* answered 404 {error: 'Route not found', method, path}, whatever its
\* credentials and wherever its path lies.
C27_UnmatchedIsNotFound ==
    \A i \in DOMAIN req :
        (req[i].kind = "app" /\ ~Registered(req[i].method, req[i].path)) =>
            req[i].res = RouteNotFound(req[i].method, req[i].path)

\* The row a request wrote is in its table.
StillStored(w) ==
    IF w.table = "conversations"
    THEN RowsOf(conversations, "conversation_id", w.id) # {}
    ELSE RowsOf(messages, "id", w.id) # {}

\* An outbound OpenAI call of the request failed after the request had
\* written a row.
FailedAfterWrite(r) ==
    r.kind = "openai" /\ r.wrote # <<>>
    /\ r.failed \in {"threads.create", "messages.create", "runs.create",
                     "runs.retrieve"}

\* C24: every row a request to the OpenAI endpoints wrote stays stored,
\* whatever outbound call fails afterwards; a sendMessage whose assistant
\* call failed after the user message was stored is answered 200 with
\* assistantResponse null.
C24_FailureIsolation ==
    \A i \in DOMAIN req :
        req[i].kind = "openai" =>
            /\ \A k \in DOMAIN req[i].wrote : StillStored(req[i].wrote[k])
            /\ (FailedAfterWrite(req[i]) /\ req[i].op = "sendMessage") =>
                  /\ Responded(req[i])
                  /\ req[i].res.status = 200
                  /\ req[i].res.body.data.assistantResponse = NullValue

\* C24 witness: a sendMessage was answered after its assistant call failed
\* with the user message stored, and a createConversation failed on its
\* initial message with the conversation row stored.
C24_Witness ==
    \E i, j \in DOMAIN req :
        /\ FailedAfterWrite(req[i]) /\ req[i].op = "sendMessage"
        /\ Responded(req[i])
        /\ RowsOf(messages, "id", MessageId(i, "user")) # {}
        /\ FailedAfterWrite(req[j]) /\ req[j].op = "createConversation"
        /\ Responded(req[j]) /\ req[j].failed = "messages.create"
        /\ RowsOf(conversations, "conversation_id", ThreadId(j)) # {}

\* The header is a non-empty string of decimal digits.
IsInteger(s) == s # <<>> /\ \A k \in DOMAIN s : s[k] \in Digits

\* C36: every request the signature middleware passes on carries a timestamp
\* header that is an integer within 300 seconds of the verification time.
C36_AcceptedTimestampIsInteger ==
    \A i \in DOMAIN req :
        (req[i].kind = "webhook" /\ req[i].entry = "route" /\ req[i].auth.next) =>
            /\ IsInteger(req[i].headers[TsHeader])
            /\ Abs(req[i].at - SignedTime(req[i]).n) <= ReplayWindow

\* The columns the conflict clause of insertConversation assigns.
Mutable == {"title", "model", "update_time", "project_id", "openai_thread_id"}

\* Requests i and j delivered conversation events for the same id, neither
\* was answered before the other arrived, both succeeded, and nothing else
\* wrote that conversation.
ConcurrentDeliveries(i, j) ==
    /\ i # j
    /\ req[i].kind = "webhook" /\ req[j].kind = "webhook"
    /\ i \notin req[j].after /\ j \notin req[i].after
    /\ IsConversationEvent(req[i]) /\ IsConversationEvent(req[j])
    /\ Responded(req[i]) /\ req[i].res.status = 200
    /\ Responded(req[j]) /\ req[j].res.status = 200
    /\ req[i].body.conversation.id = req[j].body.conversation.id
    /\ \A m \in DOMAIN req \ {i, j} :
          (req[m].kind = "webhook" /\ WroteConversation(req[m])) =>
              req[m].body.conversation.id # req[j].body.conversation.id

\* The step is the upsert of a conversation event of request i.
ConversationUpserted(i) ==
    /\ req[i].kind = "webhook" /\ IsConversationEvent(req[i])
    /\ req[i].pc = "insertConversation"
    /\ req'[i].pc = "responded" /\ ~req'[i].threw

\* C35: after two concurrent deliveries for one conversation id the id has
\* one row whose title, model, update_time, project link and thread id are
\* all those of one delivery and whose create_time is that of the other (or
\* of the same payload); at each upsert those columns become the ones of the
\* delivery that executes it and create_time stays as first written.
C35_NoTornRows ==
    /\ [](\A i, j \in DOMAIN req :
            ConcurrentDeliveries(i, j) =>
                LET rows == RowsOf(conversations, "conversation_id",
                                   req[j].body.conversation.id)
                IN  /\ Cardinality(rows) = 1
                    /\ \A n \in rows :
                          \E p \in {<<i, j>>, <<j, i>>} :
                              /\ \A c \in Mutable :
                                    conversations[n][c] = ConversationRowOf(req[p[1]])[c]
                              /\ conversations[n].create_time =
                                    ConversationRowOf(req[p[2]]).create_time)
    /\ [][\A i \in DOMAIN req :
            ConversationUpserted(i) =>
                LET row == ConversationRowOf(req[i])
                    was == RowsOf(conversations, "conversation_id", row.conversation_id)
                    rows == RowsOf(conversations', "conversation_id", row.conversation_id)
                IN  /\ Cardinality(rows) = 1
                    /\ \A n \in rows :
                          /\ \A c \in Mutable : conversations'[n][c] = row[c]
                          /\ conversations'[n].create_time =
                                IF was = {} THEN row.create_time
                                ELSE conversations[n].create_time]_vars

\* C35 witness: two concurrent deliveries with different titles and dates
\* both succeeded; the row has the title of the first payload and the
\* create_time of the second, whose upsert ran first.
C35_Witness ==
    /\ Len(req) >= 2 /\ ConcurrentDeliveries(1, 2)
    /\ req[1].body = PayloadConv /\ req[2].body = PayloadConv2
    /\ Len(conversations) = 1
    /\ conversations[1].title = ConvA.title
    /\ conversations[1].create_time = ToDate(ConvA2.create_time)

\* The step is the upsert of the conversation embedded in the message.created
\* event of request i.
EmbeddedConversationUpserted(i) ==
    /\ req[i].kind \in {"webhook", "sync"}
    /\ RoutineOf(req[i]) = "message.created"
    /\ req[i].pc = "insertConversation"
    /\ req'[i].pc # "insertConversation"

\* C37: the upsert a message.created event makes for its embedded
\* conversation leaves every conversation row that already exists as it was.
C37_MessageEventKeepsConversation ==
    [][\A i \in DOMAIN req :
         EmbeddedConversationUpserted(i) =>
             \A n \in DOMAIN conversations : conversations'[n] = conversations[n]]_vars

\* The await was issued by the call.
Attempted(r, step) == \E k \in DOMAIN r.attempted : r.attempted[k] = step

\* C34: a finished call of transaction released the connection it acquired
\* exactly once; it committed only after beginTransaction and the callback
\* succeeded; it attempted rollback whenever beginTransaction, the callback or
\* commit threw; it did not both commit and roll back; and it rejected with
\* the error that made it fail.
C34_TransactionScoping ==
    \A i \in DOMAIN req :
        (req[i].kind = "tx" /\ req[i].pc = "done") =>
            LET r == req[i] IN
            /\ r.released = (IF r.acquired THEN 1 ELSE 0)
            /\ r.committed => (r.error = "" /\ Attempted(r, "callback"))
            /\ r.error # "" => Attempted(r, "rollback")
            /\ ~(r.committed /\ r.rolledBack)
            /\ r.error # "" => r.thrown = r.error

\* The content has a line break between two letters.
InnerLineBreak(s) ==
    \E j, k, l \in DOMAIN s :
        j < k /\ k < l /\ s[j] = "a" /\ s[k] \in {CR, LF} /\ s[l] = "a"

\* C31: the result of cleanMessageContent has no white space at either end
\* and no control character other than LF; a content with a line break
\* between two letters gives a result with an LF; cleaning the result again
\* gives the result.
C31_ContentNormalization ==
    \A i \in DOMAIN req :
        req[i].kind = "clean" =>
            LET result == req[i].result IN
            /\ result # <<>> =>
                  result[1] \notin WhiteSpace /\ result[Len(result)] \notin WhiteSpace
            /\ \A k \in DOMAIN result : result[k] \notin ControlChars \ {LF}
            /\ InnerLineBreak(req[i].content) => \E k \in DOMAIN result : result[k] = LF
            /\ CleanMessageContent(result) = result

\* Request i is inside getAssistantResponse, waiting for its run.
WaitingForRun(i) ==
    i \in DOMAIN req /\ req[i].kind = "openai" /\ req[i].pc = "runs.retrieve"

\* C32: getAssistantResponse always terminates: a request waiting for its
\* run eventually stops waiting, whatever the remote side does.
C32_AssistantResponseTerminates ==
    \A i \in 1..NumRequests : WaitingForRun(i) ~> ~WaitingForRun(i)

\* The messages of the given role added to the remote thread for request r.
RemoteOf(r, role) == {k \in DOMAIN r.remote : r.remote[k].role = role}

\* C40: a sendMessage with role 'user' answered with the assistant's reply
\* added one user message and one assistant message to the remote thread,
\* none of them posted by getAssistantResponse, and stored one row for each.
C40_OneMessageEach ==
    \A i \in DOMAIN req :
        LET r == req[i] IN
        ( /\ r.kind = "openai" /\ r.op = "sendMessage" /\ RoleOf(r.body) = "user"
          /\ Responded(r) /\ r.res.status = 200
          /\ r.res.body.data.assistantResponse # NullValue )
        => /\ Cardinality(RemoteOf(r, "user")) = 1
           /\ Cardinality(RemoteOf(r, "assistant")) = 1
           /\ Len(r.wrote) = 2
           /\ Cardinality(RowsOf(messages, "id", MessageId(i, "user"))) = 1
           /\ Cardinality(RowsOf(messages, "id", MessageId(i, "assistant"))) = 1

\* The remote threads the sync runs created for the conversation, each named
\* by the run that created it.
ThreadsFor(conversationId) ==
    {i \in DOMAIN req :
        /\ req[i].kind = "mirror"
        /\ \E k \in DOMAIN req[i].threads :
              req[i].threads[k].conversation_id = conversationId}

\* The runs that posted the message to a remote thread.
PostersOf(messageId) ==
    {i \in DOMAIN req :
        /\ req[i].kind = "mirror"
        /\ \E k \in DOMAIN req[i].posted : req[i].posted[k].id = messageId}

\* C38: no step sets the remote thread id of a conversation row that has one
\* back to null, and the sync runs create at most one remote thread for a
\* conversation.
C38_ThreadIdKept ==
    /\ [][\A n \in DOMAIN conversations :
              conversations[n].openai_thread_id # Null =>
                  conversations'[n].openai_thread_id # Null]_vars
    /\ [](\A n \in DOMAIN conversations :
              Cardinality(ThreadsFor(conversations[n].conversation_id)) <= 1)

\* C39: when only sync runs are at work, each conversation gets at most one
\* remote thread and each message is posted to the remote side by at most
\* one run.
C39_NoDoubleMirror ==
    (\A i \in DOMAIN req : req[i].kind = "mirror") =>
        /\ \A n \in DOMAIN conversations :
              Cardinality(ThreadsFor(conversations[n].conversation_id)) <= 1
        /\ \A n \in DOMAIN messages : Cardinality(PostersOf(messages[n].id)) <= 1

====
